---- MODULE Spec2Model ----
(***************************************************************************)
(* Model of the analysis scripts of the Vault CRM repository.              *)
(*                                                                         *)
(* SystemDebugAnalyzer (kimi-dev-system-debug.py) scans seven files of a  *)
(* source tree with five hard-coded checks, merges the findings, sorts    *)
(* them by a priority table, numbers them, attaches implementation steps  *)
(* and renders a report.                                                   *)
(*                                                                         *)
(* A file's content is a sequence of text fragments; substring tests and  *)
(* substring counts of the code are evaluated fragment by fragment.       *)
(***************************************************************************)
EXTENDS Integers, Sequences, FiniteSets, TLC

VARIABLES
    fs,           \* the scanned tree: file path -> [status, content]
    now,          \* the wall clock, in ticks (TicksPerSecond ticks to a second)
    self_issues,  \* SystemDebugAnalyzer.issues
    self_fixes,   \* SystemDebugAnalyzer.fixes
    pc,           \* the caller: "ready" to call a method, "done" after the call
    runs,         \* how many times the caller came back for another call
    ret,          \* the last call: [op, arg, time, status, value]
    prev,         \* the call before the last one
    baseline_data \* PerformanceBaselineAnalyzer.baseline_data

vars == <<fs, now, self_issues, self_fixes, pc, runs, ret, prev, baseline_data>>

----------------------------------------------------------------------------
(* Bounds of the model *)

MaxRuns == 1
MaxClock == 3
MaxFindings == 2

----------------------------------------------------------------------------
(* The scanned files *)

StorageTs == "server/storage.ts"
RoutesTs == "server/routes.ts"
SchemaTs == "shared/schema.ts"
PerformanceTsx == "client/src/pages/performance.tsx"
PerformanceSimpleTsx == "client/src/pages/performance-simple.tsx"
PerformanceDirectTsx == "client/src/pages/performance-direct.tsx"
AppTsx == "client/src/App.tsx"

Files ==
    {StorageTs, RoutesTs, SchemaTs, PerformanceTsx, PerformanceSimpleTsx,
     PerformanceDirectTsx, AppTsx}

\* The characters of a path, as code points: Python compares strings by them.
PathChars(path) ==
    CASE path = StorageTs ->
           <<115, 101, 114, 118, 101, 114, 47, 115, 116, 111, 114, 97, 103, 101,
             46, 116, 115>>
      [] path = RoutesTs ->
           <<115, 101, 114, 118, 101, 114, 47, 114, 111, 117, 116, 101, 115, 46,
             116, 115>>
      [] path = SchemaTs ->
           <<115, 104, 97, 114, 101, 100, 47, 115, 99, 104, 101, 109, 97, 46,
             116, 115>>
      [] path = PerformanceTsx ->
           <<99, 108, 105, 101, 110, 116, 47, 115, 114, 99, 47, 112, 97, 103,
             101, 115, 47, 112, 101, 114, 102, 111, 114, 109, 97, 110, 99, 101,
             46, 116, 115, 120>>
      [] path = PerformanceSimpleTsx ->
           <<99, 108, 105, 101, 110, 116, 47, 115, 114, 99, 47, 112, 97, 103,
             101, 115, 47, 112, 101, 114, 102, 111, 114, 109, 97, 110, 99, 101,
             45, 115, 105, 109, 112, 108, 101, 46, 116, 115, 120>>
      [] path = PerformanceDirectTsx ->
           <<99, 108, 105, 101, 110, 116, 47, 115, 114, 99, 47, 112, 97, 103,
             101, 115, 47, 112, 101, 114, 102, 111, 114, 109, 97, 110, 99, 101,
             45, 100, 105, 114, 101, 99, 116, 46, 116, 115, 120>>
      [] path = AppTsx ->
           <<99, 108, 105, 101, 110, 116, 47, 115, 114, 99, 47, 65, 112, 112,
             46, 116, 115, 120>>

\* Lexicographic order of two code-point sequences (Python's str <).
RECURSIVE SeqLess(_, _)
SeqLess(a, b) ==
    IF b = <<>> THEN FALSE
    ELSE IF a = <<>> THEN TRUE
    ELSE IF Head(a) # Head(b) THEN Head(a) < Head(b)
    ELSE SeqLess(Tail(a), Tail(b))

PathLess(p, q) == SeqLess(PathChars(p), PathChars(q))

----------------------------------------------------------------------------
(* File states and text *)

Absent == [status |-> "absent", content |-> <<>>]
Unreadable == [status |-> "unreadable", content |-> <<>>]
Text(fragments) == [status |-> "file", content |-> fragments]

\* os.path.exists
exists(tree, path) == tree[path].status # "absent"

\* open(path).read() raises (permission denied, a directory, undecodable bytes)
read_raises(tree, path) == tree[path].status = "unreadable"

\* str.lower() of one fragment
lower(fragment) ==
    CASE fragment = "Commission" -> "commission"
      [] fragment = "COMMISSION" -> "commission"
      [] fragment = "FOREIGN KEY" -> "foreign key"
      [] fragment = "DELETE" -> "delete"
      [] fragment = "October" -> "october"
      [] fragment = "June" -> "june"
      [] fragment = "Performance" -> "performance"
      [] fragment = "responseTiming" -> "responsetiming"
      [] fragment = "webVitals" -> "webvitals"
      [] OTHER -> fragment

\* The proper substrings of a fragment that some check searches for.
parts(fragment) ==
    CASE fragment = "import { lazy" -> {"import "}
      [] fragment = "loading=\"eager\"" -> {"loading="}
      [] fragment = "loading=\"lazy\"" -> {"loading="}
      [] fragment = "React.lazy(" -> {"React.lazy", "lazy("}
      [] fragment = "staleTime: 0, gcTime: 0" -> {"staleTime: 0", "gcTime: 0"}
      [] fragment = "responsetiming" -> {"timing"}
      [] fragment = "webvitals" -> {"vitals"}
      [] fragment = "app.post(\"/api/repairs\"" -> {"/api/repairs"}
      [] fragment = "@radix-ui/react-dialog" -> {"@radix-ui/"}
      [] fragment = "loading='eager'" -> {"loading="}
      [] fragment = "const Reports = lazy(" -> {"lazy("}
      [] fragment = "import Dashboard from \"./pages/dashboard\"" -> {"import "}
      [] fragment = "import Login from \"./pages/login\"" -> {"import "}
      [] fragment = "import Inventory from \"./pages/inventory\"" -> {"import "}
      [] fragment = "import Reports from \"./pages/reports\"" -> {"import "}
      [] fragment = "import ImportWizard from \"./pages/importWizard\"" -> {"import "}
      [] fragment = "import DashboardSettings from \"./pages/dashboardSettings\"" ->
             {"import "}
      [] fragment = "import { Switch } from \"wouter\"" -> {"import "}
      [] fragment = "<form onSubmit={form.handleSubmit(handleSubmit)}>" ->
             {"form.handleSubmit(handleSubmit"}
      [] OTHER -> {}

\* How often `needle` occurs in one fragment.
occurrences(needle, fragment) ==
    IF fragment = needle THEN 1
    ELSE IF needle \in parts(fragment) THEN 1
    ELSE 0

\* str.count(needle)
RECURSIVE count(_, _)
count(content, needle) ==
    IF content = <<>> THEN 0
    ELSE occurrences(needle, Head(content)) + count(Tail(content), needle)

\* needle in content
contains(content, needle) == count(content, needle) > 0

\* content.lower()
lowered(content) == [i \in DOMAIN content |-> lower(content[i])]

----------------------------------------------------------------------------
(* Results of a call: a value, or an exception that left the method *)

Returned(v) == [status |-> "returned", value |-> v]
Raised == [status |-> "raised", value |-> <<>>]

----------------------------------------------------------------------------
(* SystemDebugAnalyzer: the five checks *)

analyze_database_schema_errors(tree) ==
    IF exists(tree, StorageTs)
    THEN IF read_raises(tree, StorageTs) THEN Raised
         ELSE IF contains(tree[StorageTs].content, "monthly_target")
              THEN Returned(<<[type |-> "critical",
                               category |-> "database_schema",
                               title |-> <<"Missing monthly_target column in database">>,
                               file |-> StorageTs,
                               description |-> "Code references monthly_target column that doesn't exist in database",
                               impact |-> "API endpoints failing with 500 errors",
                               fix |-> "Remove monthly_target references or add column to schema"]>>)
              ELSE Returned(<<>>)
    ELSE Returned(<<>>)

performance_files == <<PerformanceTsx, PerformanceSimpleTsx, PerformanceDirectTsx>>

\* a date finding filed under a type of its own
date_issue_accuracy(file_path) ==
    [type |-> "accuracy",
     category |-> "date_consistency",
     title |-> <<"Hardcoded October dates in ", file_path>>,
     file |-> file_path,
     description |-> "Sales data showing October 2025 instead of current June",
     impact |-> "Incorrect date display in performance analytics",
     fix |-> "Update to dynamic current month or correct June data"]

date_issue(file_path) ==
    [type |-> "data_accuracy",
     category |-> "date_consistency",
     title |-> <<"Hardcoded October dates in ", file_path>>,
     file |-> file_path,
     description |-> "Sales data showing October 2025 instead of current June",
     impact |-> "Incorrect date display in performance analytics",
     fix |-> "Update to dynamic current month or correct June data"]

\* the for loop of analyze_date_inconsistencies, from the i-th file on
RECURSIVE date_loop(_, _, _)
date_loop(tree, i, issues) ==
    IF i > Len(performance_files) THEN Returned(issues)
    ELSE LET file_path == performance_files[i] IN
         IF exists(tree, file_path)
         THEN IF read_raises(tree, file_path) THEN Raised
              ELSE IF \/ contains(tree[file_path].content, "month=10")
                      \/ contains(tree[file_path].content, "October")
                   THEN date_loop(tree, i + 1, Append(issues, date_issue(file_path)))
                   ELSE date_loop(tree, i + 1, issues)
         ELSE date_loop(tree, i + 1, issues)

analyze_date_inconsistencies(tree) == date_loop(tree, 1, <<>>)

analyze_client_deletion_errors(tree) ==
    IF exists(tree, RoutesTs)
    THEN IF read_raises(tree, RoutesTs) THEN Raised
         ELSE LET content == tree[RoutesTs].content IN
              IF /\ contains(content, "DELETE")
                 /\ contains(content, "/api/clients")
                 /\ ~contains(lowered(content), "foreign key")
              THEN Returned(<<[type |-> "functionality",
                               category |-> "client_management",
                               title |-> <<"Client deletion missing foreign key handling">>,
                               file |-> RoutesTs,
                               description |-> "Client deletion may fail due to foreign key constraints",
                               impact |-> "Users cannot delete clients with existing sales",
                               fix |-> "Add proper foreign key constraint error handling"]>>)
              ELSE Returned(<<>>)
    ELSE Returned(<<>>)

analyze_ui_display_inconsistencies(tree) ==
    IF exists(tree, AppTsx)
    THEN IF read_raises(tree, AppTsx) THEN Raised
         ELSE LET content == tree[AppTsx].content
                  lazy_count == count(content, "lazy(")
                  direct_import_count ==
                      count(content, "import ") - count(content, "import { lazy")
              IN  IF lazy_count > 0 /\ direct_import_count > 0
                  THEN Returned(<<[type |-> "ui_consistency",
                                   category |-> "component_loading",
                                   title |-> <<"Mixed lazy and direct component loading">>,
                                   file |-> AppTsx,
                                   description |-> "Different loading strategies causing UI inconsistencies",
                                   impact |-> "Performance dashboard looks different in preview vs full view",
                                   fix |-> "Standardize component loading strategy"]>>)
                  ELSE Returned(<<>>)
    ELSE Returned(<<>>)

files_to_check == <<StorageTs, RoutesTs, SchemaTs, PerformanceDirectTsx>>

\* a commission finding filed under the category "commission"
commission_issue_short_category(file_path) ==
    [type |-> "feature_removal",
     category |-> "commission",
     title |-> <<"Commission references in ", file_path>>,
     file |-> file_path,
     description |-> "Commission system needs to be removed as requested",
     impact |-> "Unnecessary commission data displayed",
     fix |-> "Remove commission calculations and UI elements"]

commission_issue(file_path) ==
    [type |-> "feature_removal",
     category |-> "commission_system",
     title |-> <<"Commission references in ", file_path>>,
     file |-> file_path,
     description |-> "Commission system needs to be removed as requested",
     impact |-> "Unnecessary commission data displayed",
     fix |-> "Remove commission calculations and UI elements"]

\* the for loop of analyze_commission_system_removal, from the i-th file on
RECURSIVE commission_loop(_, _, _)
commission_loop(tree, i, issues) ==
    IF i > Len(files_to_check) THEN Returned(issues)
    ELSE LET file_path == files_to_check[i] IN
         IF exists(tree, file_path)
         THEN IF read_raises(tree, file_path) THEN Raised
              ELSE IF contains(lowered(tree[file_path].content), "commission")
                   THEN commission_loop(tree, i + 1,
                                        Append(issues, commission_issue(file_path)))
                   ELSE commission_loop(tree, i + 1, issues)
         ELSE commission_loop(tree, i + 1, issues)

analyze_commission_system_removal(tree) == commission_loop(tree, 1, <<>>)

----------------------------------------------------------------------------
(* SystemDebugAnalyzer: prioritisation *)

\* a table that ranks the date findings above the loading findings
priority_order_dates_first ==
    <<"critical", "functionality", "data_accuracy", "ui_consistency", "feature_removal">>

priority_order ==
    <<"critical", "functionality", "ui_consistency", "data_accuracy", "feature_removal">>

\* list.index(v) raises ValueError when v is not in the list
index_raises(list, v) == \A i \in DOMAIN list : list[i] # v

\* list.index(v): the 0-based position of the first occurrence
index(list, v) ==
    (CHOOSE i \in DOMAIN list :
        list[i] = v /\ \A j \in 1..(i - 1) : list[j] # v) - 1

\* the sort key of line 168
sort_key(issue) == index(priority_order, issue["type"])

\* a sort step that puts x in front of the elements with an equal key
insert_before_equal(sorted_issues, x) ==
    LET k == Cardinality({i \in DOMAIN sorted_issues :
                             sort_key(sorted_issues[i]) < sort_key(x)})
    IN  SubSeq(sorted_issues, 1, k) \o <<x>>
          \o SubSeq(sorted_issues, k + 1, Len(sorted_issues))

\* One step of a stable sort: x goes behind every element whose key is not
\* greater than its own.
insert_stable(sorted_issues, x) ==
    LET k == Cardinality({i \in DOMAIN sorted_issues :
                             sort_key(sorted_issues[i]) <= sort_key(x)})
    IN  SubSeq(sorted_issues, 1, k) \o <<x>>
          \o SubSeq(sorted_issues, k + 1, Len(sorted_issues))

\* sorted(all_issues, key=...): Python's sort is stable
RECURSIVE sort_loop(_, _, _)
sort_loop(all_issues, i, acc) ==
    IF i > Len(all_issues) THEN acc
    ELSE sort_loop(all_issues, i + 1, insert_stable(acc, all_issues[i]))

\* the findings left in the order the checks ran
unsorted(all_issues) == all_issues

sorted(all_issues) == sort_loop(all_issues, 1, <<>>)

\* a dispatch on the finding's type instead of its category
generate_fix_steps_by_type(issue) ==
    LET type == issue["type"] IN
    IF type = "critical"
    THEN <<"Remove monthly_target column references from storage.ts",
           "Update API queries to exclude monthly_target",
           "Test stores and sales-persons endpoints">>
    ELSE IF type = "data_accuracy"
    THEN <<"Update hardcoded October dates to June 2025",
           "Change month=10 to month=6 in API calls",
           "Update display text from October to June">>
    ELSE IF type = "functionality"
    THEN <<"Add foreign key constraint error handling",
           "Implement cascade delete or proper error messaging",
           "Test client deletion with existing sales">>
    ELSE IF type = "ui_consistency"
    THEN <<"Convert all lazy components to direct imports",
           "Remove React.lazy() wrappers causing suspension",
           "Test performance dashboard consistency">>
    ELSE IF type = "feature_removal"
    THEN <<"Remove commission calculations from backend",
           "Remove commission UI elements from frontend",
           "Update performance analytics to exclude commission data">>
    ELSE <<"Manual analysis required">>

generate_fix_steps(issue) ==
    LET category == issue["category"] IN
    IF category = "database_schema"
    THEN <<"Remove monthly_target column references from storage.ts",
           "Update API queries to exclude monthly_target",
           "Test stores and sales-persons endpoints">>
    ELSE IF category = "date_consistency"
    THEN <<"Update hardcoded October dates to June 2025",
           "Change month=10 to month=6 in API calls",
           "Update display text from October to June">>
    ELSE IF category = "client_management"
    THEN <<"Add foreign key constraint error handling",
           "Implement cascade delete or proper error messaging",
           "Test client deletion with existing sales">>
    ELSE IF category = "component_loading"
    THEN <<"Convert all lazy components to direct imports",
           "Remove React.lazy() wrappers causing suspension",
           "Test performance dashboard consistency">>
    ELSE IF category = "commission_system"
    THEN <<"Remove commission calculations from backend",
           "Remove commission UI elements from frontend",
           "Update performance analytics to exclude commission data">>
    ELSE <<"Manual analysis required">>

\* an extend that drops a finding whose file already has one
extend_new_files(all_issues, issues) ==
    all_issues \o SelectSeq(issues,
        LAMBDA x : \A i \in DOMAIN all_issues : all_issues[i].file # x.file)

\* list.extend
extend(all_issues, issues) == all_issues \o issues

\* enumerate(sorted_issues) with the default start of 0
enumerate_from_zero(sorted_issues) ==
    [i \in DOMAIN sorted_issues |->
        [priority |-> i - 1,
         issue |-> sorted_issues[i],
         implementation_steps |-> generate_fix_steps(sorted_issues[i])]]

\* the loop of lines 170-176: enumerate(sorted_issues, 1)
enumerate_fixes(sorted_issues) ==
    [i \in DOMAIN sorted_issues |->
        [priority |-> i,
         issue |-> sorted_issues[i],
         implementation_steps |-> generate_fix_steps(sorted_issues[i])]]

\* lines 158-163: the five checks in call order; the first exception leaves
\* the method
collect_issues(tree) ==
    LET r1 == analyze_database_schema_errors(tree)
        r2 == analyze_date_inconsistencies(tree)
        r3 == analyze_client_deletion_errors(tree)
        r4 == analyze_ui_display_inconsistencies(tree)
        r5 == analyze_commission_system_removal(tree)
    IN  IF \E r \in {r1, r2, r3, r4, r5} : r.status = "raised" THEN Raised
        ELSE Returned(extend(extend(extend(extend(extend(<<>>, r1.value),
                 r2.value), r3.value), r4.value), r5.value))

\* lines 165-178: the sort by the priority table and the numbering; a type
\* that is not in the table makes the key raise ValueError
sort_and_number(all_issues) ==
    IF \E i \in DOMAIN all_issues :
           index_raises(priority_order, all_issues[i]["type"])
    THEN Raised
    ELSE Returned(enumerate_fixes(sorted(all_issues)))

generate_systematic_fixes(tree) ==
    LET all_issues == collect_issues(tree) IN
    IF all_issues.status = "raised" THEN Raised
    ELSE sort_and_number(all_issues.value)

----------------------------------------------------------------------------
(* SystemDebugAnalyzer: the report *)

\* the time at the clock's full resolution, as datetime.isoformat() gives it
isoformat(t) == t

\* datetime.strftime('%Y-%m-%d %H:%M:%S'): the time cut to whole seconds
\* (the clock ticks twice a second)
strftime(t) == t \div 2

\* issue['type'].replace('_', ' ').title()
title_case(type) ==
    CASE type = "critical" -> "Critical"
      [] type = "functionality" -> "Functionality"
      [] type = "ui_consistency" -> "Ui Consistency"
      [] type = "data_accuracy" -> "Data Accuracy"
      [] type = "feature_removal" -> "Feature Removal"
      [] OTHER -> type

\* one "### Priority ..." section of the report, lines 229-243
render_section(fix) ==
    [priority |-> fix.priority,
     title |-> fix.issue.title,
     type |-> title_case(fix.issue["type"]),
     file |-> fix.issue.file,
     impact |-> fix.issue.impact,
     description |-> fix.issue.description,
     steps |-> fix.implementation_steps]

\* the sections in reverse order
render_sections_reversed(fixes) ==
    [k \in DOMAIN fixes |-> render_section(fixes[Len(fixes) + 1 - k])]

render_sections(fixes) == [k \in DOMAIN fixes |-> render_section(fixes[k])]

recommended_order ==
    <<"Fix critical database schema errors first (stores/sales-persons API)",
      "Fix client deletion functionality",
      "Standardize component loading to fix UI inconsistencies",
      "Update date consistency (October -> June)",
      "Remove commission system as requested">>

create_implementation_report(tree, t) ==
    LET fixes == generate_systematic_fixes(tree) IN
    IF fixes.status = "raised" THEN Raised
    ELSE Returned([generated |-> strftime(t),
                   issues_identified |-> Len(fixes.value),
                   sections |-> render_sections(fixes.value),
                   recommended_order |-> recommended_order])

----------------------------------------------------------------------------
(* The trees the analyzer is run on *)

\* the states each scanned file is tried in
Candidates(path) ==
    CASE path = StorageTs ->
           {Absent, Unreadable, Text(<<"monthly_target">>), Text(<<"Commission">>),
            Text(<<"monthly_target", "commission">>)}
      [] path = RoutesTs ->
           {Absent, Unreadable, Text(<<"DELETE", "/api/clients">>),
            Text(<<"DELETE", "/api/clients", "FOREIGN KEY", "commission">>),
            Text(<<"delete", "/api/clients", "COMMISSION">>)}
      [] path = SchemaTs ->
           {Absent, Text(<<>>), Text(<<"commission">>)}
      [] path = PerformanceTsx ->
           {Absent, Text(<<"october">>), Text(<<"month=10">>)}
      [] path = PerformanceSimpleTsx ->
           {Absent, Unreadable, Text(<<"October">>)}
      [] path = PerformanceDirectTsx ->
           {Absent, Text(<<"June">>), Text(<<"October">>),
            Text(<<"month=10", "Commission">>)}
      [] path = AppTsx ->
           {Absent, Text(<<"import { lazy", "lazy(">>),
            Text(<<"import { lazy", "import ", "lazy(", "lazy(">>),
            Text(<<"import ", "import ">>)}

Trees ==
    {[f \in Files |->
         CASE f = StorageTs -> st
           [] f = RoutesTs -> ro
           [] f = SchemaTs -> sc
           [] f = PerformanceTsx -> pe
           [] f = PerformanceSimpleTsx -> ps
           [] f = PerformanceDirectTsx -> pd
           [] f = AppTsx -> ap] :
        st \in Candidates(StorageTs), ro \in Candidates(RoutesTs),
        sc \in Candidates(SchemaTs), pe \in Candidates(PerformanceTsx),
        ps \in Candidates(PerformanceSimpleTsx),
        pd \in Candidates(PerformanceDirectTsx), ap \in Candidates(AppTsx)}

\* the trees of a session of repeated calls
EmptyTree == [f \in Files |-> Absent]

FullTree ==
    [f \in Files |->
        CASE f = StorageTs -> Text(<<"monthly_target", "commission">>)
          [] f = RoutesTs -> Text(<<"DELETE", "/api/clients">>)
          [] f = SchemaTs -> Text(<<"commission">>)
          [] f = PerformanceTsx -> Text(<<"month=10">>)
          [] f = PerformanceSimpleTsx -> Text(<<"October">>)
          [] f = PerformanceDirectTsx -> Text(<<"month=10", "Commission">>)
          [] f = AppTsx -> Text(<<"import { lazy", "import ", "lazy(", "lazy(">>)]

SessionTrees ==
    {EmptyTree, FullTree,
     [FullTree EXCEPT ![StorageTs] = Unreadable],
     [FullTree EXCEPT ![PerformanceTsx] = Absent, ![RoutesTs] = Absent],
     [EmptyTree EXCEPT ![StorageTs] = Text(<<"Commission">>)]}

\* the issues generate_fix_steps is tried on
IssueSamples ==
    {date_issue(PerformanceTsx), commission_issue(SchemaTs),
     [date_issue(PerformanceTsx) EXCEPT !.category = "database_schema"],
     [commission_issue(SchemaTs) EXCEPT !.category = "client_management"],
     [commission_issue(RoutesTs) EXCEPT !.category = "component_loading"],
     [commission_issue(RoutesTs) EXCEPT !.category = "engine"],
     [date_issue(PerformanceTsx) EXCEPT !.category = "performance"],
     [date_issue(PerformanceTsx) EXCEPT !.category = "Database_Schema"]}

----------------------------------------------------------------------------
(* The state machine *)

\* PerformanceBaselineAnalyzer(): __init__, lines 16-24; an empty dict has no
\* keys
PerformanceBaselineAnalyzer(t) ==
    [timestamp |-> isoformat(t),
     metrics |-> <<>>,
     bottlenecks |-> <<>>,
     dependencies |-> <<>>,
     risk_assessment |-> <<>>]

NoCall == [op |-> "none", arg |-> <<>>, time |-> 0, status |-> "none", value |-> <<>>]

Call(op, arg, result) ==
    [op |-> op, arg |-> arg, time |-> now, status |-> result.status,
     value |-> result.value]

\* SystemDebugAnalyzer(): __init__, lines 14-17
Constructed ==
    /\ self_issues = <<>>
    /\ self_fixes = <<>>
    /\ pc = "ready"
    /\ runs = 0
    /\ ret = NoCall
    /\ prev = NoCall
    /\ baseline_data = PerformanceBaselineAnalyzer(0)

\* one run over any tree
Init ==
    /\ fs \in Trees
    /\ now = 0
    /\ Constructed

\* a session of calls on one instance
InitRuns ==
    /\ fs \in SessionTrees
    /\ now = 0
    /\ Constructed

Returns(op, arg, result) ==
    /\ pc = "ready"
    /\ pc' = "done"
    /\ prev' = ret
    /\ ret' = Call(op, arg, result)
    /\ UNCHANGED <<fs, now, self_issues, self_fixes, runs, baseline_data>>

AnalyzeDatabaseSchemaErrors ==
    Returns("analyze_database_schema_errors", <<>>, analyze_database_schema_errors(fs))

AnalyzeDateInconsistencies ==
    Returns("analyze_date_inconsistencies", <<>>, analyze_date_inconsistencies(fs))

AnalyzeClientDeletionErrors ==
    Returns("analyze_client_deletion_errors", <<>>, analyze_client_deletion_errors(fs))

AnalyzeUiDisplayInconsistencies ==
    Returns("analyze_ui_display_inconsistencies", <<>>,
            analyze_ui_display_inconsistencies(fs))

AnalyzeCommissionSystemRemoval ==
    Returns("analyze_commission_system_removal", <<>>,
            analyze_commission_system_removal(fs))

\* generate_systematic_fixes collecting into self.issues instead of a local list
GenerateSystematicFixesOnSelf ==
    LET found == collect_issues(fs) IN
    /\ pc = "ready"
    /\ pc' = "done"
    /\ prev' = ret
    /\ self_issues' = self_issues \o found.value
    /\ ret' = Call("generate_systematic_fixes", <<>>,
                   IF found.status = "raised" THEN Raised
                   ELSE Returned(enumerate_fixes(sorted(self_issues'))))
    /\ UNCHANGED <<fs, now, self_fixes, runs, baseline_data>>

GenerateSystematicFixes ==
    Returns("generate_systematic_fixes", <<>>, generate_systematic_fixes(fs))

GenerateFixSteps ==
    \E issue \in IssueSamples :
        Returns("generate_fix_steps", issue, Returned(generate_fix_steps(issue)))

CreateImplementationReport ==
    Returns("create_implementation_report", <<>>, create_implementation_report(fs, now))

\* the caller comes back for another call on the same instance
Repeat ==
    /\ pc = "done"
    /\ runs < MaxRuns
    /\ pc' = "ready"
    /\ runs' = runs + 1
    /\ UNCHANGED <<fs, now, self_issues, self_fixes, ret, prev, baseline_data>>

\* time passes
Tick ==
    /\ now < MaxClock
    /\ now' = now + 1
    /\ UNCHANGED <<fs, self_issues, self_fixes, pc, runs, ret, prev, baseline_data>>

Next ==
    \/ AnalyzeDatabaseSchemaErrors
    \/ AnalyzeDateInconsistencies
    \/ AnalyzeClientDeletionErrors
    \/ AnalyzeUiDisplayInconsistencies
    \/ AnalyzeCommissionSystemRemoval
    \/ GenerateSystematicFixes
    \/ CreateImplementationReport

Spec == Init /\ [][Next]_vars

NextRuns ==
    \/ GenerateSystematicFixes
    \/ GenerateFixSteps
    \/ CreateImplementationReport
    \/ Repeat
    \/ Tick

SpecRuns == InitRuns /\ [][NextRuns]_vars

----------------------------------------------------------------------------
(* Properties of the prioritised fix list *)

FixesReturned ==
    ret.op = "generate_systematic_fixes" /\ ret.status = "returned"

\* the priority table as the report states it
TypeRank(type) ==
    CASE type = "critical" -> 1
      [] type = "functionality" -> 2
      [] type = "ui_consistency" -> 3
      [] type = "data_accuracy" -> 4
      [] type = "feature_removal" -> 5

\* what the five checks return on the scanned tree
CheckResults ==
    <<analyze_database_schema_errors(fs), analyze_date_inconsistencies(fs),
      analyze_client_deletion_errors(fs), analyze_ui_display_inconsistencies(fs),
      analyze_commission_system_removal(fs)>>

RECURSIVE SumLen(_)
SumLen(results) ==
    IF results = <<>> THEN 0 ELSE Len(Head(results).value) + SumLen(Tail(results))

\* C1: in the list generate_systematic_fixes returns, a finding whose type
\* ranks before another finding's type in the priority table (critical <
\* functionality < ui_consistency < data_accuracy < feature_removal) has the
\* smaller priority number and stands earlier in the list.
C1_TypeRankOrdersPriority ==
    FixesReturned =>
        \A i, j \in DOMAIN ret.value :
            TypeRank(ret.value[i].issue["type"]) < TypeRank(ret.value[j].issue["type"])
                => ret.value[i].priority < ret.value[j].priority /\ i < j

\* a list where a check that runs earlier (dates) found something that ranks
\* behind the finding of a check that runs later (client deletion)
C1_Witness ==
    /\ FixesReturned
    /\ \E i, j \in DOMAIN ret.value :
          /\ ret.value[i].issue["type"] = "functionality"
          /\ ret.value[j].issue["type"] = "data_accuracy"

\* C2: the priority numbers of the list generate_systematic_fixes returns are
\* 1, 2, ..., N in list order, N being the number of findings the five checks
\* return together.
C2_PrioritiesDense ==
    FixesReturned =>
        /\ \A k \in DOMAIN ret.value : ret.value[k].priority = k
        /\ Len(ret.value) = SumLen(CheckResults)

C2_Witness ==
    /\ FixesReturned
    /\ Len(ret.value) >= 4
    /\ ret.value[4].priority = 4

\* the place of a finding's file in the file list of the check that emits it
ListPlace(issue) ==
    IF issue.category = "date_consistency"
    THEN CASE issue.file = "client/src/pages/performance.tsx" -> 1
           [] issue.file = "client/src/pages/performance-simple.tsx" -> 2
           [] issue.file = "client/src/pages/performance-direct.tsx" -> 3
    ELSE IF issue.category = "commission_system"
    THEN CASE issue.file = "server/storage.ts" -> 1
           [] issue.file = "server/routes.ts" -> 2
           [] issue.file = "shared/schema.ts" -> 3
           [] issue.file = "client/src/pages/performance-direct.tsx" -> 4
    ELSE 1

\* C3 as claimed: findings of the same type stand in ascending lexicographic
\* order of their file paths.
C3_TiesByFilePath ==
    FixesReturned =>
        \A i, j \in DOMAIN ret.value :
            (i < j /\ ret.value[i].issue["type"] = ret.value[j].issue["type"])
                => ~PathLess(ret.value[j].issue.file, ret.value[i].issue.file)

\* C3 amended: findings of the same type come from the same check and keep
\* the order in which that check found them, the order of its file list.
C3_TiesKeepEmissionOrder ==
    FixesReturned =>
        \A i, j \in DOMAIN ret.value :
            (i < j /\ ret.value[i].issue["type"] = ret.value[j].issue["type"])
                => /\ ret.value[i].issue.category = ret.value[j].issue.category
                   /\ ListPlace(ret.value[i].issue) < ListPlace(ret.value[j].issue)

\* two findings of one type whose list order is not their path order
C3_Witness ==
    /\ FixesReturned
    /\ \E i, j \in DOMAIN ret.value :
          /\ i < j
          /\ ret.value[i].issue["type"] = ret.value[j].issue["type"]
          /\ PathLess(ret.value[j].issue.file, ret.value[i].issue.file)

----------------------------------------------------------------------------
(* Repeated runs *)

ReportReturned ==
    ret.op = "create_implementation_report" /\ ret.status = "returned"

TwoReports ==
    /\ ReportReturned
    /\ prev.op = "create_implementation_report" /\ prev.status = "returned"

SameSecond(t1, t2) == t1 \div 2 = t2 \div 2

TwoFixesCalls ==
    ret.op = "generate_systematic_fixes" /\ prev.op = "generate_systematic_fixes"

\* C5: a call of generate_systematic_fixes that follows another one on the
\* same instance over the unchanged tree ends the same way with the same
\* list of (priority, finding, steps), and no call leaves anything in
\* self.issues or self.fixes.
C5_FixesIdempotent ==
    /\ self_issues = <<>>
    /\ self_fixes = <<>>
    /\ TwoFixesCalls => ret.status = prev.status /\ ret.value = prev.value

\* a second call, at a later time, that returned findings again
C5_Witness ==
    /\ TwoFixesCalls
    /\ ret.status = "returned"
    /\ Len(ret.value) >= 2
    /\ ret.time > prev.time

----------------------------------------------------------------------------
(* Failures while scanning *)

\* the (check, file) pairs whose read raises on the scanned tree
CheckFiles ==
    [analyze_database_schema_errors |-> {"server/storage.ts"},
     analyze_date_inconsistencies |->
        {"client/src/pages/performance.tsx", "client/src/pages/performance-simple.tsx",
         "client/src/pages/performance-direct.tsx"},
     analyze_client_deletion_errors |-> {"server/routes.ts"},
     analyze_ui_display_inconsistencies |-> {"client/src/App.tsx"},
     analyze_commission_system_removal |->
        {"server/storage.ts", "server/routes.ts", "shared/schema.ts",
         "client/src/pages/performance-direct.tsx"}]

FailingPairs ==
    {pair \in (DOMAIN CheckFiles) \X Files :
        pair[2] \in CheckFiles[pair[1]] /\ fs[pair[2]].status = "unreadable"}

\* C6 as claimed: a call of generate_systematic_fixes returns even when reads
\* fail, with exactly one finding of category "engine" per failing
\* (check, file) pair.
C6_FailureIsolated ==
    ret.op = "generate_systematic_fixes" =>
        /\ ret.status = "returned"
        /\ Cardinality({k \in DOMAIN ret.value : ret.value[k].issue.category = "engine"})
             = Cardinality(FailingPairs)

\* the files of a check's list that exist and hold the text the check looks for
MatchingFiles(check) ==
    {f \in CheckFiles[check] :
        /\ fs[f].status = "file"
        /\ IF check = "analyze_commission_system_removal"
           THEN \E i \in DOMAIN fs[f].content :
                    fs[f].content[i] \in {"commission", "Commission", "COMMISSION"}
           ELSE \E i \in DOMAIN fs[f].content :
                    fs[f].content[i] \in {"month=10", "October"}}

\* C7 as claimed: analyze_commission_system_removal and
\* analyze_date_inconsistencies produce exactly one finding per existing
\* matching file of their lists.
C7_OneFindingPerMatchingFile ==
    ret.op \in {"analyze_commission_system_removal", "analyze_date_inconsistencies"} =>
        /\ Len(ret.value) = Cardinality(MatchingFiles(ret.op))
        /\ \A f \in MatchingFiles(ret.op) :
              Cardinality({k \in DOMAIN ret.value : ret.value[k].file = f}) = 1

----------------------------------------------------------------------------
(* The merge, the steps and the report *)

FixesOf(file) == {k \in DOMAIN ret.value : ret.value[k].issue.file = file}

\* C8: the list generate_systematic_fixes returns holds every finding of
\* every check exactly once: its length is the sum of the lengths of the
\* five checks' results, no (check, file) pair has more than one finding,
\* and a file matched by two checks has two findings.
C8_MergeIsPlainUnion ==
    FixesReturned =>
        /\ Len(ret.value) = SumLen(CheckResults)
        /\ \A c \in DOMAIN CheckResults :
              \A n \in DOMAIN CheckResults[c].value :
                  Cardinality({k \in DOMAIN ret.value :
                                  ret.value[k].issue = CheckResults[c].value[n]}) = 1
        /\ \A i, j \in DOMAIN ret.value :
              (/\ ret.value[i].issue.file = ret.value[j].issue.file
               /\ ret.value[i].issue.category = ret.value[j].issue.category) => i = j
        /\ \A f \in Files :
              Cardinality(FixesOf(f))
                = Cardinality({c \in DOMAIN CheckResults :
                      \E n \in DOMAIN CheckResults[c].value :
                          CheckResults[c].value[n].file = f})

\* server/storage.ts matched by the monthly_target check and by the
\* commission check
C8_Witness ==
    /\ FixesReturned
    /\ \E i, j \in FixesOf("server/storage.ts") :
          /\ ret.value[i].issue.category = "database_schema"
          /\ ret.value[j].issue.category = "commission_system"

\* the step table, category by category
StepTable ==
    [database_schema |->
        <<"Remove monthly_target column references from storage.ts",
          "Update API queries to exclude monthly_target",
          "Test stores and sales-persons endpoints">>,
     date_consistency |->
        <<"Update hardcoded October dates to June 2025",
          "Change month=10 to month=6 in API calls",
          "Update display text from October to June">>,
     client_management |->
        <<"Add foreign key constraint error handling",
          "Implement cascade delete or proper error messaging",
          "Test client deletion with existing sales">>,
     component_loading |->
        <<"Convert all lazy components to direct imports",
          "Remove React.lazy() wrappers causing suspension",
          "Test performance dashboard consistency">>,
     commission_system |->
        <<"Remove commission calculations from backend",
          "Remove commission UI elements from frontend",
          "Update performance analytics to exclude commission data">>]

\* C9: generate_fix_steps returns the step sequence of the finding's
\* category, whatever its other fields, and the single step "Manual analysis
\* required" for a category that is none of the five.
C9_StepsByCategory ==
    ret.op = "generate_fix_steps" =>
        /\ ret.status = "returned"
        /\ ret.value = IF ret.arg.category \in DOMAIN StepTable
                       THEN StepTable[ret.arg.category]
                       ELSE <<"Manual analysis required">>

\* a finding whose type is not the one its category usually comes with
C9_Witness ==
    /\ ret.op = "generate_fix_steps"
    /\ ret.arg.category = "database_schema"
    /\ ret.arg["type"] = "data_accuracy"
    /\ prev.op = "generate_fix_steps"
    /\ prev.value = <<"Manual analysis required">>

\* C10: the report has one section per fix, section k being the fix with
\* priority k of the list generate_systematic_fixes returns, and its
\* "Issues Identified" count is the number of sections.
C10_ReportKeepsOrder ==
    ReportReturned =>
        LET fixes == generate_systematic_fixes(fs).value IN
        /\ Len(ret.value.sections) = Len(fixes)
        /\ ret.value.issues_identified = Len(ret.value.sections)
        /\ \A k \in DOMAIN ret.value.sections :
              /\ ret.value.sections[k].priority = k
              /\ fixes[k].priority = k
              /\ ret.value.sections[k].title = fixes[k].issue.title
              /\ ret.value.sections[k].file = fixes[k].issue.file
              /\ ret.value.sections[k].steps = fixes[k].implementation_steps

\* a report of at least three sections of different types
C10_Witness ==
    /\ ReportReturned
    /\ Len(ret.value.sections) >= 3
    /\ ret.value.sections[1].type # ret.value.sections[3].type

----------------------------------------------------------------------------
(* The types and categories the five checks emit *)

\* C21: every finding any of the five checks returns has a type that is an
\* entry of the priority table, so whenever the five checks have returned
\* their findings the sort of generate_systematic_fixes returns too
C21_EveryTypeIsRanked ==
    /\ (/\ ret.op \in DOMAIN CheckFiles
         /\ ret.status = "returned") =>
            \A k \in DOMAIN ret.value :
                ~index_raises(priority_order, ret.value[k]["type"])
    /\ (/\ ret.op = "generate_systematic_fixes"
         /\ collect_issues(fs).status = "returned") =>
            /\ ret.status = "returned"
            /\ \A k \in DOMAIN ret.value :
                   ~index_raises(priority_order, ret.value[k].issue["type"])

\* a sorted list that holds a finding of each of the five checks
C21_Witness ==
    /\ FixesReturned
    /\ \A c \in DOMAIN CheckResults : Len(CheckResults[c].value) > 0
    /\ {ret.value[k].issue["type"] : k \in DOMAIN ret.value}
          = {priority_order[i] : i \in DOMAIN priority_order}

\* C22: every fix generate_systematic_fixes returns carries the three steps
\* of its finding's category; the fallback step "Manual analysis required"
\* is never given to a finding of the five checks
C22_ThreeStepsOfTheCategory ==
    FixesReturned =>
        \A k \in DOMAIN ret.value :
            LET steps == ret.value[k].implementation_steps IN
            /\ Len(steps) = 3
            /\ ret.value[k].issue.category \in DOMAIN StepTable
            /\ steps = StepTable[ret.value[k].issue.category]
            /\ \A n \in DOMAIN steps : steps[n] # "Manual analysis required"

\* fixes of all five categories, two of them commission findings of
\* different files
C22_Witness ==
    /\ FixesReturned
    /\ {ret.value[k].issue.category : k \in DOMAIN ret.value} = DOMAIN StepTable
    /\ \E i, j \in DOMAIN ret.value :
          /\ i # j
          /\ ret.value[i].issue.category = "commission_system"
          /\ ret.value[j].issue.category = "commission_system"
          /\ ret.value[i].implementation_steps = ret.value[j].implementation_steps

----------------------------------------------------------------------------
(* VaultCodeImprover (kimi-dev-improvements.py): five checks and the tally *)

InventoryTableTsx == "client/src/components/inventory-table.tsx"
AuthMiddlewareTs == "server/authMiddleware.ts"
BulkUploadModalTsx == "client/src/components/bulk-upload-modal.tsx"
BulkSalesImportModalTsx == "client/src/components/bulk-sales-import-modal.tsx"
ClientsTsx == "client/src/pages/clients.tsx"

\* a check that asks for the one substring only and rates it MEDIUM
analyze_inventory_cache_only(tree) ==
    IF ~exists(tree, InventoryTableTsx) THEN Returned(<<>>)
    ELSE IF read_raises(tree, InventoryTableTsx) THEN Raised
    ELSE LET content == tree[InventoryTableTsx].content IN
         Returned(
           (IF contains(content, "staleTime: 0")
            THEN <<[file |-> InventoryTableTsx,
                    issue |-> "Overly aggressive cache invalidation causing performance issues",
                    severity |-> "MEDIUM"]>>
            ELSE <<>>)
           \o
           (IF contains(content, "loading=\"eager\"")
            THEN <<[file |-> InventoryTableTsx,
                    issue |-> "Inefficient image loading strategy",
                    severity |-> "MEDIUM"]>>
            ELSE <<>>))

analyze_inventory_performance_issues(tree) ==
    IF ~exists(tree, InventoryTableTsx) THEN Returned(<<>>)
    ELSE IF read_raises(tree, InventoryTableTsx) THEN Raised
    ELSE LET content == tree[InventoryTableTsx].content IN
         Returned(
           (IF contains(content, "staleTime: 0") /\ contains(content, "gcTime: 0")
            THEN <<[file |-> InventoryTableTsx,
                    issue |-> "Overly aggressive cache invalidation causing performance issues",
                    severity |-> "HIGH"]>>
            ELSE <<>>)
           \o
           (IF contains(content, "loading=\"eager\"")
            THEN <<[file |-> InventoryTableTsx,
                    issue |-> "Inefficient image loading strategy",
                    severity |-> "MEDIUM"]>>
            ELSE <<>>))

\* re.search(r'try\s*\{.*?\}\s*catch', content, re.DOTALL): a "try {" with a
\* "} catch" after it, in the same fragment or a later one
search_try_catch(content) ==
    \/ \E i \in DOMAIN content : content[i] = "try { next() } catch"
    \/ \E i, j \in DOMAIN content :
           /\ i < j
           /\ content[i] \in {"try {", "try { next() } catch"}
           /\ content[j] \in {"} catch", "try { next() } catch"}

analyze_authentication_security(tree) ==
    IF ~exists(tree, AuthMiddlewareTs) THEN Returned(<<>>)
    ELSE IF read_raises(tree, AuthMiddlewareTs) THEN Raised
    ELSE IF ~search_try_catch(tree[AuthMiddlewareTs].content)
         THEN Returned(<<[file |-> AuthMiddlewareTs,
                          issue |-> "Missing comprehensive error handling in auth middleware",
                          severity |-> "HIGH"]>>)
         ELSE Returned(<<>>)

analyze_database_query_optimization(tree) ==
    IF ~exists(tree, RoutesTs) THEN Returned(<<>>)
    ELSE IF read_raises(tree, RoutesTs) THEN Raised
    ELSE LET content == tree[RoutesTs].content IN
         IF contains(content, "imageOptimizer.getItemImages")
            /\ ~contains(content, "Promise.all")
         THEN Returned(<<[file |-> RoutesTs,
                          issue |-> "Potential N+1 query problem in image loading",
                          severity |-> "MEDIUM"]>>)
         ELSE Returned(<<>>)

analyze_csv_import_robustness(tree) ==
    LET bulk_upload_paths == <<BulkUploadModalTsx, BulkSalesImportModalTsx>>
        RECURSIVE loop(_, _)
        loop(i, issues) ==
            IF i > Len(bulk_upload_paths) THEN Returned(issues)
            ELSE LET path_str == bulk_upload_paths[i] IN
                 IF ~exists(tree, path_str) THEN loop(i + 1, issues)
                 ELSE IF read_raises(tree, path_str) THEN Raised
                 ELSE IF ~contains(tree[path_str].content, "ErrorBoundary")
                      THEN loop(i + 1, Append(issues,
                               [file |-> path_str,
                                issue |-> "Missing error boundary for CSV upload failures",
                                severity |-> "MEDIUM"]))
                      ELSE loop(i + 1, issues)
    IN  loop(1, <<>>)

analyze_client_search_performance(tree) ==
    IF ~exists(tree, ClientsTsx) THEN Returned(<<>>)
    ELSE IF read_raises(tree, ClientsTsx) THEN Raised
    ELSE LET content == tree[ClientsTsx].content IN
         IF ~contains(content, "useDebounce") /\ ~contains(content, "setTimeout")
         THEN Returned(<<[file |-> ClientsTsx,
                          issue |-> "Search input not debounced",
                          severity |-> "MEDIUM"]>>)
         ELSE Returned(<<>>)

\* issue["severity"] raises KeyError on a finding without the key
severity_raises(all_issues) ==
    \E i \in DOMAIN all_issues : "severity" \notin DOMAIN all_issues[i]

\* [issue for issue in all_issues if issue["severity"] == level]
with_severity(all_issues, level) ==
    SelectSeq(all_issues, LAMBDA issue : issue["severity"] = level)

\* lines 170-180 of generate_improvement_suggestions
improvement_tally(all_issues) ==
    IF severity_raises(all_issues) THEN Raised
    ELSE Returned([total_issues |-> Len(all_issues),
                   high_priority |-> with_severity(all_issues, "HIGH"),
                   medium_priority |-> with_severity(all_issues, "MEDIUM"),
                   low_priority |-> with_severity(all_issues, "LOW")])

generate_improvement_suggestions(tree) ==
    LET r1 == analyze_inventory_performance_issues(tree)
        r2 == analyze_authentication_security(tree)
        r3 == analyze_database_query_optimization(tree)
        r4 == analyze_csv_import_robustness(tree)
        r5 == analyze_client_search_performance(tree)
    IN  IF \E r \in {r1, r2, r3, r4, r5} : r.status = "raised" THEN Raised
        ELSE improvement_tally(extend(extend(extend(extend(extend(<<>>,
                 r1.value), r2.value), r3.value), r4.value), r5.value))

\* a plan whose second phase lists the low priority findings
create_implementation_plan_low_second(improvements) ==
    [phase_1 |->
         [i \in DOMAIN improvements.high_priority |->
             [heading |-> <<"Fix", i>>,
              issue |-> improvements.high_priority[i].issue,
              file |-> improvements.high_priority[i].file]],
     phase_2 |->
         [i \in DOMAIN improvements.low_priority |->
             [heading |-> <<"Optimization", i>>,
              issue |-> improvements.low_priority[i].issue,
              file |-> improvements.low_priority[i].file]]]

\* lines 182-245: the "### Fix i" sections of phase 1 and the
\* "### Optimization i" sections of phase 2, both numbered by enumerate(.., 1);
\* the text around them is fixed
create_implementation_plan(improvements) ==
    [phase_1 |->
         [i \in DOMAIN improvements.high_priority |->
             [heading |-> <<"Fix", i>>,
              issue |-> improvements.high_priority[i].issue,
              file |-> improvements.high_priority[i].file]],
     phase_2 |->
         [i \in DOMAIN improvements.medium_priority |->
             [heading |-> <<"Optimization", i>>,
              issue |-> improvements.medium_priority[i].issue,
              file |-> improvements.medium_priority[i].file]]]

----------------------------------------------------------------------------
(* Phase2Analyzer (kimi-dev-phase2-analyzer.py): six checks and the tally *)

InventoryCardViewTsx == "client/src/components/inventory-card-view.tsx"
ItemDetailsModalTsx == "client/src/components/item-details-modal.tsx"
ImageUploadTsx == "client/src/components/image-upload.tsx"
DashboardTsx == "client/src/pages/dashboard.tsx"
ServerIndexTs == "server/index.ts"
MainTsx == "client/src/main.tsx"

\* a file of known size
Sized(fragments, size) == [status |-> "file", content |-> fragments, size |-> size]

\* Path.stat().st_size; a file whose size is left open is a small one
st_size(tree, path) ==
    IF "size" \in DOMAIN tree[path] THEN tree[path].size ELSE 1024

analyze_dashboard_metrics_error(tree) ==
    IF ~exists(tree, RoutesTs) THEN Returned(<<>>)
    ELSE IF read_raises(tree, RoutesTs) THEN Raised
    ELSE IF contains(tree[RoutesTs].content, "/api/dashboard/metrics")
         THEN Returned(<<[file |-> RoutesTs,
                          issue |-> "Dashboard metrics database error - Date object serialization",
                          severity |-> "HIGH"]>>)
         ELSE Returned(<<>>)

\* a check whose second test takes every component with an image
analyze_image_lazy_loading_opportunities_every_img(tree) ==
    LET image_components ==
            <<InventoryTableTsx, InventoryCardViewTsx, ItemDetailsModalTsx>>
        found(content, component_path) ==
            (IF contains(content, "loading=\"eager\"")
             THEN <<[file |-> component_path,
                     issue |-> "Images using eager loading instead of lazy loading",
                     severity |-> "MEDIUM"]>>
             ELSE <<>>)
            \o
            (IF contains(content, "<img")
             THEN <<[file |-> component_path,
                     issue |-> "Images missing loading strategy",
                     severity |-> "MEDIUM"]>>
             ELSE <<>>)
        RECURSIVE loop(_, _)
        loop(i, issues) ==
            IF i > Len(image_components) THEN Returned(issues)
            ELSE LET component_path == image_components[i] IN
                 IF ~exists(tree, component_path) THEN loop(i + 1, issues)
                 ELSE IF read_raises(tree, component_path) THEN Raised
                 ELSE loop(i + 1,
                          issues \o found(tree[component_path].content, component_path))
    IN  loop(1, <<>>)

analyze_image_lazy_loading_opportunities(tree) ==
    LET image_components ==
            <<InventoryTableTsx, InventoryCardViewTsx, ItemDetailsModalTsx>>
        \* lines 66-84: the two tests on one component
        found(content, component_path) ==
            (IF contains(content, "loading=\"eager\"")
             THEN <<[file |-> component_path,
                     issue |-> "Images using eager loading instead of lazy loading",
                     severity |-> "MEDIUM"]>>
             ELSE <<>>)
            \o
            (IF contains(content, "<img") /\ ~contains(content, "loading=")
             THEN <<[file |-> component_path,
                     issue |-> "Images missing loading strategy",
                     severity |-> "MEDIUM"]>>
             ELSE <<>>)
        RECURSIVE loop(_, _)
        loop(i, issues) ==
            IF i > Len(image_components) THEN Returned(issues)
            ELSE LET component_path == image_components[i] IN
                 IF ~exists(tree, component_path) THEN loop(i + 1, issues)
                 ELSE IF read_raises(tree, component_path) THEN Raised
                 ELSE loop(i + 1,
                          issues \o found(tree[component_path].content, component_path))
    IN  loop(1, <<>>)

\* os.walk(client/src): the .ts and .tsx files below client/src in the order
\* the walk yields them
walk_client_src ==
    <<AppTsx, MainTsx, BulkSalesImportModalTsx, BulkUploadModalTsx,
      ImageUploadTsx, InventoryCardViewTsx, InventoryTableTsx, ItemDetailsModalTsx,
      ClientsTsx, DashboardTsx, PerformanceDirectTsx, PerformanceSimpleTsx,
      PerformanceTsx>>

\* round(file_size / 1024, 2), in hundredths of a KB
size_kb(file_size) == (file_size * 200 + 1024) \div 2048

\* lines 95-109
large_components(tree) ==
    LET walked == SelectSeq(walk_client_src,
                      LAMBDA file : file \in DOMAIN tree /\ exists(tree, file))
        large == SelectSeq(walked, LAMBDA file : st_size(tree, file) > 15000)
    IN  [i \in DOMAIN large |->
            [file |-> large[i], size_kb |-> size_kb(st_size(tree, large[i]))]]

analyze_bundle_size_optimization(tree) ==
    LET large == large_components(tree)
        \* large_components[:3]
        first_three == SubSeq(large, 1, IF Len(large) < 3 THEN Len(large) ELSE 3)
        issues == IF large # <<>>
                  THEN <<[file |-> "Multiple large components",
                          issue |-> "Large component files detected",
                          severity |-> "MEDIUM",
                          description |-> first_three]>>
                  ELSE <<>>
        app_path == AppTsx
    IN  IF ~exists(tree, app_path) THEN Returned(issues)
        ELSE IF read_raises(tree, app_path) THEN Raised
        ELSE IF ~contains(tree[app_path].content, "React.lazy")
                /\ ~contains(tree[app_path].content, "lazy(")
             THEN Returned(Append(issues,
                      [file |-> app_path,
                       issue |-> "No code splitting implemented",
                       severity |-> "MEDIUM"]))
             ELSE Returned(issues)

analyze_error_handling_gaps(tree) ==
    LET critical_components == <<ImageUploadTsx, ItemDetailsModalTsx, DashboardTsx>>
        RECURSIVE loop(_, _)
        loop(i, issues) ==
            IF i > Len(critical_components) THEN Returned(issues)
            ELSE LET component_path == critical_components[i] IN
                 IF ~exists(tree, component_path) THEN loop(i + 1, issues)
                 ELSE IF read_raises(tree, component_path) THEN Raised
                 ELSE LET content == tree[component_path].content
                          has_try_catch == search_try_catch(content)
                          has_error_boundary == contains(content, "ErrorBoundary")
                      IN  IF ~has_try_catch /\ ~has_error_boundary
                          THEN loop(i + 1, Append(issues,
                                   [file |-> component_path,
                                    issue |-> "Missing comprehensive error handling",
                                    severity |-> "MEDIUM"]))
                          ELSE loop(i + 1, issues)
    IN  loop(1, <<>>)

analyze_performance_monitoring_gaps(tree) ==
    LET server ==
            IF ~exists(tree, ServerIndexTs) THEN Returned(<<>>)
            ELSE IF read_raises(tree, ServerIndexTs) THEN Raised
            ELSE LET content == lowered(tree[ServerIndexTs].content) IN
                 IF ~contains(content, "performance") /\ ~contains(content, "timing")
                 THEN Returned(<<[file |-> ServerIndexTs,
                                  issue |-> "No performance monitoring middleware",
                                  severity |-> "LOW"]>>)
                 ELSE Returned(<<>>)
        client ==
            IF ~exists(tree, MainTsx) THEN Returned(<<>>)
            ELSE IF read_raises(tree, MainTsx) THEN Raised
            ELSE LET content == lowered(tree[MainTsx].content) IN
                 IF ~contains(content, "performance") /\ ~contains(content, "vitals")
                 THEN Returned(<<[file |-> MainTsx,
                                  issue |-> "No client-side performance monitoring",
                                  severity |-> "LOW"]>>)
                 ELSE Returned(<<>>)
    IN  IF server.status = "raised" \/ client.status = "raised" THEN Raised
        ELSE Returned(server.value \o client.value)

analyze_api_response_optimization(tree) ==
    IF ~exists(tree, RoutesTs) THEN Returned(<<>>)
    ELSE IF read_raises(tree, RoutesTs) THEN Raised
    ELSE LET content == tree[RoutesTs].content IN
         Returned(
           (IF contains(content, "/api/inventory") /\ ~contains(content, "limit")
            THEN <<[file |-> RoutesTs,
                    issue |-> "Inventory API missing pagination",
                    severity |-> "MEDIUM"]>>
            ELSE <<>>)
           \o
           (IF ~contains(content, "compression") /\ ~contains(content, "gzip")
            THEN <<[file |-> ServerIndexTs,
                    issue |-> "No response compression middleware",
                    severity |-> "LOW"]>>
            ELSE <<>>))

\* a tally whose third list asks for a lower-case level
phase2_tally_lowercase_low(all_issues) ==
    IF severity_raises(all_issues) THEN Raised
    ELSE Returned([high_priority |-> with_severity(all_issues, "HIGH"),
                   medium_priority |-> with_severity(all_issues, "MEDIUM"),
                   low_priority |-> with_severity(all_issues, "low"),
                   total_issues |-> Len(all_issues)])

\* lines 261-271 of generate_phase2_improvements
phase2_tally(all_issues) ==
    IF severity_raises(all_issues) THEN Raised
    ELSE Returned([high_priority |-> with_severity(all_issues, "HIGH"),
                   medium_priority |-> with_severity(all_issues, "MEDIUM"),
                   low_priority |-> with_severity(all_issues, "LOW"),
                   total_issues |-> Len(all_issues)])

generate_phase2_improvements(tree) ==
    LET r1 == analyze_dashboard_metrics_error(tree)
        r2 == analyze_image_lazy_loading_opportunities(tree)
        r3 == analyze_bundle_size_optimization(tree)
        r4 == analyze_error_handling_gaps(tree)
        r5 == analyze_performance_monitoring_gaps(tree)
        r6 == analyze_api_response_optimization(tree)
    IN  IF \E r \in {r1, r2, r3, r4, r5, r6} : r.status = "raised" THEN Raised
        ELSE phase2_tally(extend(extend(extend(extend(extend(extend(<<>>,
                 r1.value), r2.value), r3.value), r4.value), r5.value), r6.value))

----------------------------------------------------------------------------
(* PerformanceBaselineAnalyzer (kimi-dev-performance-baseline.py): the     *)
(* data fetching check                                                      *)

analyze_data_fetching_patterns(tree) ==
    IF ~exists(tree, ClientsTsx) THEN Returned(<<>>)
    ELSE IF read_raises(tree, ClientsTsx) THEN Raised
    ELSE LET content == tree[ClientsTsx].content IN
         Returned(
           (IF contains(content, "refetchInterval: 3 * 1000")
            THEN <<[component |-> "Clients",
                    issue |-> "3-second automatic refresh causing constant re-renders",
                    impact |-> "HIGH"]>>
            ELSE <<>>)
           \o
           (IF contains(content, "staleTime: 0")
            THEN <<[component |-> "Clients",
                    issue |-> "Zero stale time forces fresh data on every access",
                    impact |-> "MEDIUM"]>>
            ELSE <<>>))

----------------------------------------------------------------------------
(* kimi-dev-phase2-implementation.py: the proposals and the saved plan *)

Phase2PlanJson == "kimi-dev-phase2-plan.json"

implement_image_lazy_loading(tree) ==
    LET image_files == <<InventoryTableTsx, ItemDetailsModalTsx, InventoryCardViewTsx>>
        RECURSIVE loop(_, _)
        loop(i, improvements) ==
            IF i > Len(image_files) THEN Returned(improvements)
            ELSE LET file_path == image_files[i] IN
                 IF ~exists(tree, file_path) THEN loop(i + 1, improvements)
                 ELSE IF read_raises(tree, file_path) THEN Raised
                 ELSE LET content == tree[file_path].content IN
                      IF contains(content, "<img") /\ ~contains(content, "loading=")
                      THEN loop(i + 1, Append(improvements,
                               [file |-> file_path,
                                change |-> "Add loading='lazy' to img elements"]))
                      ELSE IF contains(content, "loading=\"eager\"")
                      THEN loop(i + 1, Append(improvements,
                               [file |-> file_path,
                                change |-> "Change loading='eager' to loading='lazy'"]))
                      ELSE loop(i + 1, improvements)
    IN  loop(1, <<>>)

implement_compression_middleware(tree) ==
    IF ~exists(tree, ServerIndexTs) THEN Returned(<<>>)
    ELSE IF read_raises(tree, ServerIndexTs) THEN Raised
    ELSE IF ~contains(tree[ServerIndexTs].content, "compression")
         THEN Returned(<<[file |-> ServerIndexTs,
                          change |-> "Add compression middleware for gzip responses"]>>)
         ELSE Returned(<<>>)

implement_performance_monitoring(tree) ==
    LET server ==
            IF ~exists(tree, ServerIndexTs) THEN Returned(<<>>)
            ELSE IF read_raises(tree, ServerIndexTs) THEN Raised
            ELSE IF ~contains(lowered(tree[ServerIndexTs].content), "performance")
                 THEN Returned(<<[file |-> ServerIndexTs,
                                  change |-> "Add request timing middleware"]>>)
                 ELSE Returned(<<>>)
        client ==
            IF ~exists(tree, MainTsx) THEN Returned(<<>>)
            ELSE IF read_raises(tree, MainTsx) THEN Raised
            ELSE IF ~contains(lowered(tree[MainTsx].content), "vitals")
                 THEN Returned(<<[file |-> MainTsx,
                                  change |-> "Add Web Vitals monitoring"]>>)
                 ELSE Returned(<<>>)
    IN  IF server.status = "raised" \/ client.status = "raised" THEN Raised
        ELSE Returned(server.value \o client.value)

implement_code_splitting(tree) ==
    IF ~exists(tree, AppTsx) THEN Returned(<<>>)
    ELSE IF read_raises(tree, AppTsx) THEN Raised
    ELSE IF ~contains(tree[AppTsx].content, "React.lazy")
            /\ ~contains(tree[AppTsx].content, "lazy(")
         THEN Returned(<<[file |-> AppTsx,
                          change |-> "Implement React.lazy for route components"]>>)
         ELSE Returned(<<>>)

generate_implementation_summary(tree) ==
    LET r1 == implement_image_lazy_loading(tree)
        r2 == implement_compression_middleware(tree)
        r3 == implement_performance_monitoring(tree)
        r4 == implement_code_splitting(tree)
    IN  IF \E r \in {r1, r2, r3, r4} : r.status = "raised" THEN Raised
        ELSE LET all_improvements ==
                     extend(extend(extend(extend(<<>>, r1.value), r2.value),
                            r3.value), r4.value)
             IN  Returned([phase2_improvements |-> all_improvements,
                           total_optimizations |-> Len(all_improvements)])

\* open(path, "w") raises on a path that cannot be opened for writing and
\* in a working directory that is gone or closed
write_raises(tree, path) ==
    tree[path].status = "unreadable" \/ tree["."].status # "directory"

\* with open(path, "w") as f: f.write(text) / json.dump(value, f)
written(tree, path, text) == [tree EXCEPT ![path] = Text(<<text>>)]

----------------------------------------------------------------------------
(* The trees the other scripts are run on *)

\* the root the scripts take by default, which is also where main saves
Root == "."
DebugReportMd == "kimi-dev-debug-report.md"

Directory == [status |-> "directory", content |-> <<>>]

ScanFiles ==
    Files \cup
    {Root, InventoryTableTsx, AuthMiddlewareTs, BulkUploadModalTsx,
     BulkSalesImportModalTsx, ClientsTsx, InventoryCardViewTsx, ItemDetailsModalTsx,
     ImageUploadTsx, DashboardTsx, ServerIndexTs, MainTsx, Phase2PlanJson,
     DebugReportMd}

EmptyScanTree == [f \in ScanFiles |-> IF f = Root THEN Directory ELSE Absent]

\* the trees one script run starts on
ScanTrees ==
    LET
        \* trees of the files VaultCodeImprover and the data fetching check read
        ImproverTrees ==
            {[EmptyScanTree EXCEPT ![InventoryTableTsx] = it, ![AuthMiddlewareTs] = am,
                                   ![RoutesTs] = ro, ![BulkUploadModalTsx] = bu,
                                   ![BulkSalesImportModalTsx] = bs, ![ClientsTsx] = cl] :
                it \in {Absent, Unreadable,
                        Text(<<"staleTime: 0", "gcTime: 0">>),
                        Text(<<"staleTime: 0">>),
                        Text(<<"staleTime: 30", "gcTime: 0", "loading=\"eager\"">>),
                        Text(<<"staleTime: 0, gcTime: 0", "loading=\"eager\"">>)},
                am \in {Absent, Text(<<"try {", "} catch">>), Text(<<"} catch", "try {">>)},
                ro \in {Absent, Unreadable,
                        Text(<<"imageOptimizer.getItemImages">>),
                        Text(<<"imageOptimizer.getItemImages", "Promise.all">>)},
                bu \in {Absent, Text(<<"Papa.parse">>)},
                bs \in {Text(<<"ErrorBoundary">>), Text(<<"Papa.parse">>)},
                cl \in {Absent, Unreadable,
                        Text(<<"staleTime: 0">>),
                        Text(<<"staleTime: 30", "useDebounce">>),
                        Text(<<"refetchInterval: 3 * 1000", "staleTime: 0", "setTimeout">>)}}
        \* trees of the files Phase2Analyzer and the implementation script read
        Phase2Trees ==
            {[EmptyScanTree EXCEPT ![RoutesTs] = ro, ![InventoryTableTsx] = it,
                                   ![InventoryCardViewTsx] = ic, ![ItemDetailsModalTsx] = id,
                                   ![AppTsx] = ap, ![ImageUploadTsx] = iu,
                                   ![DashboardTsx] = db, ![ServerIndexTs] = si,
                                   ![MainTsx] = mt] :
                ro \in {Unreadable,
                        Text(<<"/api/dashboard/metrics", "/api/inventory">>),
                        Text(<<"/api/inventory", "limit", "compression">>)},
                it \in {Absent, Text(<<"<img">>), Text(<<"<img", "loading=\"eager\"">>)},
                ic \in {Absent, Text(<<"<img", "loading=\"lazy\"">>),
                        Text(<<"<img", "loading='eager'">>)},
                id \in {Absent, Sized(<<"<img">>, 20480)},
                ap \in {Absent, Text(<<"React.lazy(">>), Text(<<"Route">>)},
                iu \in {Absent, Sized(<<"ErrorBoundary">>, 32768)},
                db \in {Absent, Sized(<<"try {", "} catch">>, 15000), Sized(<<"useQuery">>, 15001)},
                si \in {Absent, Text(<<"Performance">>), Text(<<"compression", "responseTiming">>)},
                mt \in {Absent, Text(<<"webVitals">>)}}
        \* trees that already hold a plan of an earlier run, or a plan path that
        \* cannot be written
        PlanTrees ==
            {[tree EXCEPT ![Phase2PlanJson] = plan] :
                tree \in {t \in Phase2Trees :
                             /\ t[ImageUploadTsx] = Absent
                             /\ t[DashboardTsx] = Absent
                             /\ t[RoutesTs] = Unreadable
                             /\ t[MainTsx] = Absent},
                plan \in {Text(<<"phase2_improvements">>), Unreadable}}
        \* trees of the files SystemDebugAnalyzer reads
        DebugTrees ==
            {[f \in ScanFiles |-> IF f \in Files THEN tree[f] ELSE EmptyScanTree[f]] :
                tree \in {t \in Trees :
                             /\ t[SchemaTs] = Absent
                             /\ t[PerformanceTsx] = Absent
                             /\ t[PerformanceSimpleTsx] = Absent
                             /\ t[AppTsx] # Absent}}
        \* a root that does not exist, or that cannot be entered: os.path.exists is
        \* False for every path below it
        RootlessTrees ==
            {[EmptyScanTree EXCEPT ![Root] = root] : root \in {Absent, Unreadable}}
    IN  ImproverTrees \cup Phase2Trees \cup PlanTrees \cup DebugTrees \cup RootlessTrees

\* the findings the tallies are tried on: of the three levels, of a level
\* outside them, of a level in another case, and without a level
SeverityFindings ==
    {[file |-> RoutesTs, issue |-> "Dashboard metrics database error - Date object serialization",
      severity |-> "HIGH"],
     [file |-> ClientsTsx, issue |-> "Search input not debounced", severity |-> "MEDIUM"],
     [file |-> ServerIndexTs, issue |-> "No response compression middleware",
      severity |-> "LOW"],
     [file |-> "client/src/pages/repairs.tsx", issue |-> "Missing form ID attribute",
      severity |-> "critical"],
     [file |-> ClientsTsx, issue |-> "Search input not debounced", severity |-> "Medium"],
     [component |-> "Clients", issue |-> "Zero stale time forces fresh data on every access",
      impact |-> "MEDIUM"]}

\* the findings the sort is tried on: of types of the priority table and of
\* types outside it
TypeFindings ==
    {date_issue(PerformanceTsx), commission_issue(SchemaTs),
     commission_issue(RoutesTs),
     [date_issue(PerformanceDirectTsx) EXCEPT !["type"] = "critical"],
     [date_issue(PerformanceTsx) EXCEPT !["type"] = "performance"],
     [commission_issue(SchemaTs) EXCEPT !["type"] = "Critical"]}

\* the lists of at most MaxFindings findings
Lists(findings) == UNION {[1..n -> findings] : n \in 0..MaxFindings}

----------------------------------------------------------------------------
(* The state machine of the other scripts *)

\* one script run over any tree
InitScan ==
    /\ fs \in ScanTrees
    /\ now = 0
    /\ Constructed

\* the tally and the sort on a list of findings
InitLists ==
    /\ fs = EmptyTree
    /\ now = 0
    /\ Constructed

AnalyzeInventoryPerformanceIssues ==
    Returns("analyze_inventory_performance_issues", <<>>,
            analyze_inventory_performance_issues(fs))

GenerateImprovementSuggestions ==
    Returns("generate_improvement_suggestions", <<>>,
            generate_improvement_suggestions(fs))

\* main, lines 249 and 274: the plan of the suggestions just generated
CreateImplementationPlan ==
    LET improvements == generate_improvement_suggestions(fs) IN
    /\ improvements.status = "returned"
    /\ Returns("create_implementation_plan", improvements.value,
               Returned(create_implementation_plan(improvements.value)))

AnalyzeDataFetchingPatterns ==
    Returns("analyze_data_fetching_patterns", <<>>, analyze_data_fetching_patterns(fs))

AnalyzeImageLazyLoadingOpportunities ==
    Returns("analyze_image_lazy_loading_opportunities", <<>>,
            analyze_image_lazy_loading_opportunities(fs))

GeneratePhase2Improvements ==
    Returns("generate_phase2_improvements", <<>>, generate_phase2_improvements(fs))

\* a proposal step that also makes the edit it proposes
ImplementImageLazyLoadingInPlace ==
    LET result == implement_image_lazy_loading(fs) IN
    /\ pc = "ready"
    /\ pc' = "done"
    /\ prev' = ret
    /\ ret' = Call("implement_image_lazy_loading", <<>>, result)
    /\ fs' = [f \in DOMAIN fs |->
                 IF \E i \in DOMAIN result.value : result.value[i].file = f
                 THEN Text(Append(SelectSeq(fs[f].content,
                                      LAMBDA x : x # "loading=\"eager\""),
                                  "loading=\"lazy\""))
                 ELSE fs[f]]
    /\ UNCHANGED <<now, self_issues, self_fixes, runs, baseline_data>>

ImplementImageLazyLoading ==
    Returns("implement_image_lazy_loading", <<>>, implement_image_lazy_loading(fs))

GenerateImplementationSummary ==
    Returns("generate_implementation_summary", <<>>,
            generate_implementation_summary(fs))

\* main of kimi-dev-phase2-implementation.py: the summary, then the plan file
Phase2ImplementationMain ==
    LET summary == generate_implementation_summary(fs)
        saved == summary.status = "returned" /\ ~write_raises(fs, Phase2PlanJson)
    IN  /\ pc = "ready"
        /\ pc' = "done"
        /\ prev' = ret
        /\ ret' = Call("main", <<>>, IF saved THEN summary ELSE Raised)
        /\ fs' = IF saved THEN written(fs, Phase2PlanJson, "phase2_improvements")
                 ELSE fs
        /\ UNCHANGED <<now, self_issues, self_fixes, runs, baseline_data>>

\* main of kimi-dev-system-debug.py: the report, then the report file
SystemDebugMain ==
    LET report == create_implementation_report(fs, now)
        saved == report.status = "returned" /\ ~write_raises(fs, DebugReportMd)
    IN  /\ pc = "ready"
        /\ pc' = "done"
        /\ prev' = ret
        /\ ret' = Call("system_debug_main", <<>>, IF saved THEN report ELSE Raised)
        /\ fs' = IF saved
                 THEN written(fs, DebugReportMd, "# Kimi-Dev System Debug Report")
                 ELSE fs
        /\ UNCHANGED <<now, self_issues, self_fixes, runs, baseline_data>>

ImprovementTally ==
    \E all_issues \in Lists(SeverityFindings) :
        Returns("improvement_tally", all_issues, improvement_tally(all_issues))

Phase2Tally ==
    \E all_issues \in Lists(SeverityFindings) :
        Returns("phase2_tally", all_issues, phase2_tally(all_issues))

SortAndNumber ==
    \E all_issues \in Lists(TypeFindings) :
        Returns("sort_and_number", all_issues, sort_and_number(all_issues))

NextScan ==
    \/ AnalyzeDatabaseSchemaErrors
    \/ AnalyzeDateInconsistencies
    \/ AnalyzeClientDeletionErrors
    \/ AnalyzeUiDisplayInconsistencies
    \/ AnalyzeCommissionSystemRemoval
    \/ CreateImplementationReport
    \/ SystemDebugMain
    \/ AnalyzeInventoryPerformanceIssues
    \/ GenerateImprovementSuggestions
    \/ CreateImplementationPlan
    \/ AnalyzeDataFetchingPatterns
    \/ AnalyzeImageLazyLoadingOpportunities
    \/ GeneratePhase2Improvements
    \/ ImplementImageLazyLoading
    \/ GenerateImplementationSummary
    \/ Phase2ImplementationMain

SpecScan == InitScan /\ [][NextScan]_vars

NextLists ==
    \/ ImprovementTally
    \/ Phase2Tally
    \/ SortAndNumber

SpecLists == InitLists /\ [][NextLists]_vars

----------------------------------------------------------------------------
(* Findings with a level or a type outside the tables *)

Levels == {"HIGH", "MEDIUM", "LOW"}

HasLevel(issue) == "severity" \in DOMAIN issue /\ issue["severity"] \in Levels

TallyCalled == ret.op \in {"improvement_tally", "phase2_tally"}

\* how many findings of a list satisfy a test
HowMany(list, Test(_)) == Cardinality({i \in DOMAIN list : Test(list[i])})

CountedAsMedium(issue) == ~HasLevel(issue) \/ issue["severity"] = "MEDIUM"

InTable(issue) == ~index_raises(priority_order, issue["type"])

----------------------------------------------------------------------------
(* Scanning and proposing leave the tree alone *)

\* C13: scanning and proposing are read-only: no analyze_* method and no
\* implement_* function creates, modifies or deletes a file of the tree; the
\* only writes are the report files that the main functions save
C13_ScanningIsReadOnly ==
    [][\A f \in DOMAIN fs :
           fs'[f] # fs[f] =>
               \/ f = Phase2PlanJson /\ ret'.op = "main"
               \/ f = DebugReportMd /\ ret'.op = "system_debug_main"]_vars

\* a proposal was made for a file that still holds the text it is about
C13_Witness ==
    /\ ret.op = "implement_image_lazy_loading"
    /\ ret.status = "returned"
    /\ Len(ret.value) > 0
    /\ contains(fs[ret.value[1].file].content, "loading=\"eager\"")

----------------------------------------------------------------------------
(* The cache checks *)

Level(finding) ==
    IF "severity" \in DOMAIN finding THEN finding["severity"] ELSE finding["impact"]

CacheFindings(findings) ==
    SelectSeq(findings, LAMBDA finding :
        finding["issue"] \in
            {"Overly aggressive cache invalidation causing performance issues",
             "Zero stale time forces fresh data on every access"})

\* the file a cache check reads
CacheFile(op) ==
    IF op = "analyze_data_fetching_patterns" THEN ClientsTsx ELSE InventoryTableTsx

CacheCheckReturned ==
    /\ ret.op \in {"analyze_data_fetching_patterns",
                   "analyze_inventory_performance_issues"}
    /\ ret.status = "returned"
    /\ fs[CacheFile(ret.op)].status = "file"

\* C16 as stated: a check that matches on "staleTime: 0" yields exactly one
\* finding, of severity MEDIUM, for a file that contains the substring, and
\* none for a file that does not, whatever else the file contains
C16_StaleTimeZeroAloneIsMedium ==
    CacheCheckReturned =>
        LET found == CacheFindings(ret.value) IN
        IF contains(fs[CacheFile(ret.op)].content, "staleTime: 0")
        THEN Len(found) = 1 /\ Level(found[1]) = "MEDIUM"
        ELSE found = <<>>

\* C16 amended: the data fetching check yields exactly one finding of impact
\* MEDIUM for a clients.tsx that contains "staleTime: 0" and none otherwise;
\* the inventory check yields exactly one finding of severity HIGH for an
\* inventory-table.tsx that contains both "staleTime: 0" and "gcTime: 0" and
\* none otherwise
C16_CacheChecks ==
    CacheCheckReturned =>
        LET found == CacheFindings(ret.value)
            content == fs[CacheFile(ret.op)].content
        IN  IF ret.op = "analyze_data_fetching_patterns"
            THEN IF contains(content, "staleTime: 0")
                 THEN Len(found) = 1 /\ found[1]["impact"] = "MEDIUM"
                 ELSE found = <<>>
            ELSE IF contains(content, "staleTime: 0") /\ contains(content, "gcTime: 0")
                 THEN Len(found) = 1 /\ found[1]["severity"] = "HIGH"
                 ELSE found = <<>>

\* the data fetching check found the zero stale time next to another finding
C16_Witness ==
    /\ CacheCheckReturned
    /\ ret.op = "analyze_data_fetching_patterns"
    /\ contains(fs[ClientsTsx].content, "staleTime: 0")
    /\ Len(ret.value) = 2
    /\ Len(CacheFindings(ret.value)) = 1

----------------------------------------------------------------------------
(* The tallies *)

SuggestionsReturned ==
    /\ ret.op \in {"generate_improvement_suggestions", "generate_phase2_improvements"}
    /\ ret.status = "returned"

\* C19: the severity tallies partition the findings: total_issues is the sum
\* of the lengths of high_priority, medium_priority and low_priority, and
\* each list holds findings of its own level only
C19_TalliesPartition ==
    SuggestionsReturned =>
        /\ ret.value.total_issues =
               Len(ret.value.high_priority) + Len(ret.value.medium_priority)
                   + Len(ret.value.low_priority)
        /\ \A i \in DOMAIN ret.value.high_priority :
               ret.value.high_priority[i]["severity"] = "HIGH"
        /\ \A i \in DOMAIN ret.value.medium_priority :
               ret.value.medium_priority[i]["severity"] = "MEDIUM"
        /\ \A i \in DOMAIN ret.value.low_priority :
               ret.value.low_priority[i]["severity"] = "LOW"

\* a tally with findings of all three levels
C19_Witness ==
    /\ SuggestionsReturned
    /\ ret.value.high_priority # <<>>
    /\ Len(ret.value.medium_priority) > 1
    /\ ret.value.low_priority # <<>>

----------------------------------------------------------------------------
(* The file a finding names *)

\* the test of the check that emits `finding`, made on the file it names
NamedFileWasEvaluated(tree, finding) ==
    /\ finding.file \in DOMAIN tree
    /\ tree[finding.file].status = "file"
    /\ LET content == tree[finding.file].content
           issue == finding["issue"]
       IN  CASE issue = "Dashboard metrics database error - Date object serialization" ->
                    contains(content, "/api/dashboard/metrics")
             [] issue = "Images using eager loading instead of lazy loading" ->
                    contains(content, "loading=\"eager\"")
             [] issue = "Images missing loading strategy" ->
                    contains(content, "<img") /\ ~contains(content, "loading=")
             [] issue = "Large component files detected" ->
                    st_size(tree, finding.file) > 15000
             [] issue = "No code splitting implemented" ->
                    ~contains(content, "React.lazy") /\ ~contains(content, "lazy(")
             [] issue = "Missing comprehensive error handling" ->
                    ~search_try_catch(content) /\ ~contains(content, "ErrorBoundary")
             [] issue = "No performance monitoring middleware" ->
                    /\ ~contains(lowered(content), "performance")
                    /\ ~contains(lowered(content), "timing")
             [] issue = "No client-side performance monitoring" ->
                    /\ ~contains(lowered(content), "performance")
                    /\ ~contains(lowered(content), "vitals")
             [] issue = "Inventory API missing pagination" ->
                    contains(content, "/api/inventory") /\ ~contains(content, "limit")
             [] issue = "No response compression middleware" ->
                    ~contains(content, "compression") /\ ~contains(content, "gzip")
             [] OTHER -> FALSE

\* C20: the file field of every finding of Phase2Analyzer names the file
\* whose content or size was evaluated to produce it, the findings of the
\* response compression check and of the large components check included
C20_FileFieldNamesEvaluatedFile ==
    (ret.op = "generate_phase2_improvements" /\ ret.status = "returned") =>
        \A finding \in
            {ret.value.high_priority[i] : i \in DOMAIN ret.value.high_priority}
            \cup {ret.value.medium_priority[i] : i \in DOMAIN ret.value.medium_priority}
            \cup {ret.value.low_priority[i] : i \in DOMAIN ret.value.low_priority} :
            NamedFileWasEvaluated(fs, finding)

----------------------------------------------------------------------------
(* The order of the report and the order it recommends *)

\* the categories in the order of the "Recommended Implementation Order"
RecommendedCategories ==
    <<"database_schema", "client_management", "component_loading",
      "date_consistency", "commission_system">>

RecommendedPlace(category) ==
    CHOOSE k \in DOMAIN RecommendedCategories : RecommendedCategories[k] = category

\* C17: the order of the sections of the system debug report agrees with the
\* report's own "Recommended Implementation Order": database schema findings
\* come before client deletion findings, these before component loading
\* findings, these before date consistency findings, and these before
\* commission removal findings
C17_OrderAgreesWithRecommendation ==
    ReportReturned =>
        LET fixes == collect_issues(fs).value
            sections == ret.value.sections
            CategoryOf(section) ==
                fixes[CHOOSE i \in DOMAIN fixes :
                          /\ fixes[i].file = section.file
                          /\ fixes[i].title = section.title].category
        IN  /\ ret.value.recommended_order =
                   <<"Fix critical database schema errors first (stores/sales-persons API)",
                     "Fix client deletion functionality",
                     "Standardize component loading to fix UI inconsistencies",
                     "Update date consistency (October -> June)",
                     "Remove commission system as requested">>
            /\ \A i, j \in DOMAIN sections :
                   i < j => RecommendedPlace(CategoryOf(sections[i]))
                                <= RecommendedPlace(CategoryOf(sections[j]))

\* a report with a loading finding, a date finding and a third kind
C17_Witness ==
    /\ ReportReturned
    /\ \E i, j, k \in DOMAIN ret.value.sections :
           /\ ret.value.sections[i].type = "Ui Consistency"
           /\ ret.value.sections[j].type = "Data Accuracy"
           /\ ret.value.sections[k].type \in {"Critical", "Functionality"}

----------------------------------------------------------------------------
(* A root that is missing *)

\* C15: when the root is missing or unreadable the run fails before any
\* scanning, and no report is produced
C15_MissingRootIsAnInputError ==
    (/\ fs[Root].status # "directory"
     /\ ret.op \in {"create_implementation_report", "system_debug_main"}) =>
        /\ ret.status = "raised"
        /\ fs[DebugReportMd] = Absent

----------------------------------------------------------------------------
(* VaultCodeAnalyzer (vault-code-analyzer.py): the walks over the tree and *)
(* the report it saves into the working directory                          *)

VaultAnalysisReportJson == "vault-analysis-report.json"

\* os.walk(self.repo_path): the files of the tree in the order the walk
\* yields them, the files of the root first
walk_repo ==
    <<"drizzle.config.ts", "package.json", VaultAnalysisReportJson,
      "client/src/index.css", ClientsTsx, AuthMiddlewareTs, SchemaTs>>

\* str(relative_path): the directory of a file, relative to the root
relative_path(path) ==
    CASE path = "client/src/index.css" -> "client/src"
      [] path = ClientsTsx -> "client/src/pages"
      [] path = AuthMiddlewareTs -> "server"
      [] path = SchemaTs -> "shared"
      [] OTHER -> "."

\* the last component of a path
file_name(path) ==
    CASE path = "client/src/index.css" -> "index.css"
      [] path = ClientsTsx -> "clients.tsx"
      [] path = AuthMiddlewareTs -> "authMiddleware.ts"
      [] path = SchemaTs -> "schema.ts"
      [] OTHER -> path

\* file.endswith(suffix), for the suffixes the walks ask for
endswith(file, suffix) ==
    suffix \in
        CASE file = "drizzle.config.ts" -> {".ts", ".config.ts"}
          [] file = "package.json" -> {".json"}
          [] file = "vault-analysis-report.json" -> {".json"}
          [] file = "index.css" -> {".css"}
          [] file = "clients.tsx" -> {".tsx"}
          [] file = "authMiddleware.ts" -> {".ts"}
          [] file = "schema.ts" -> {".ts"}
          [] OTHER -> {}

\* word in text.lower(), for the words the walks ask for
has_word(text, word) ==
    word \in
        CASE text = "drizzle.config.ts" -> {"drizzle"}
          [] text = "clients.tsx" -> {"client"}
          [] text = "authMiddleware.ts" -> {"auth", "middleware"}
          [] text = "schema.ts" -> {"schema"}
          [] text = "client/src" -> {"client"}
          [] text = "client/src/pages" -> {"client"}
          [] text = "server" -> {"server"}
          [] OTHER -> {}

\* the files the walk meets
walked(tree) == SelectSeq(walk_repo, LAMBDA path : exists(tree, path))

\* lines 45-54: the first branch of the if/elif chain that takes the file
analyze_project_structure(tree) ==
    LET in_frontend(path) ==
            /\ \E s \in {".tsx", ".jsx", ".ts", ".js"} : endswith(file_name(path), s)
            /\ has_word(relative_path(path), "client")
        in_backend(path) ==
            /\ ~in_frontend(path)
            /\ \E s \in {".ts", ".js"} : endswith(file_name(path), s)
            /\ has_word(relative_path(path), "server")
        in_database(path) ==
            /\ ~in_frontend(path) /\ ~in_backend(path)
            /\ \E s \in {".sql", ".ts"} : endswith(file_name(path), s)
            /\ \E db \in {"schema", "drizzle", "migration"} :
                   has_word(file_name(path), db)
        in_config(path) ==
            /\ ~in_frontend(path) /\ ~in_backend(path) /\ ~in_database(path)
            /\ \E s \in {".json", ".config.ts", ".md"} : endswith(file_name(path), s)
        in_assets(path) ==
            /\ ~in_frontend(path) /\ ~in_backend(path) /\ ~in_database(path)
            /\ ~in_config(path)
            /\ \E s \in {".png", ".jpg", ".svg", ".css"} : endswith(file_name(path), s)
    IN  [frontend |-> SelectSeq(walked(tree), in_frontend),
         backend |-> SelectSeq(walked(tree), in_backend),
         database |-> SelectSeq(walked(tree), in_database),
         config |-> SelectSeq(walked(tree), in_config),
         assets |-> SelectSeq(walked(tree), in_assets)]

\* an analysis that a failing read ends
analyze_database_schema_until_error(tree) ==
    LET schema_files ==
            SelectSeq(walked(tree), LAMBDA path :
                \/ has_word(file_name(path), "schema")
                \/ has_word(file_name(path), "drizzle"))
        \* re.findall(r'export const (\w+) = (?:pgTable|table)', content)
        RECURSIVE findall(_, _)
        findall(content, i) ==
            IF i > Len(content) THEN <<>>
            ELSE (CASE content[i] = "export const clients = pgTable" -> <<"clients">>
                    [] content[i] = "export const sales = pgTable" -> <<"sales">>
                    [] OTHER -> <<>>)
                 \o findall(content, i + 1)
        RECURSIVE loop(_, _)
        loop(i, tables_found) ==
            IF i > Len(schema_files) THEN tables_found
            ELSE IF read_raises(tree, schema_files[i])
                 THEN tables_found
                 ELSE loop(i + 1,
                           tables_found \o findall(tree[schema_files[i]].content, 1))
        names == {loop(1, <<>>)[i] : i \in DOMAIN loop(1, <<>>)}
    IN  {[schema_files |-> schema_files, tables_identified |-> tables_identified] :
            tables_identified \in
                {list \in [1..Cardinality(names) -> names] :
                    {list[i] : i \in DOMAIN list} = names}}

\* lines 86-122: the file is listed before it is read (line 98), a read that
\* raises is reported and passed over (lines 108-109), and list(set(..)) keeps
\* each name once, in an order the language leaves open: the set of the
\* results the call can return
analyze_database_schema(tree) ==
    LET schema_files ==
            SelectSeq(walked(tree), LAMBDA path :
                \/ has_word(file_name(path), "schema")
                \/ has_word(file_name(path), "drizzle"))
        \* re.findall(r'export const (\w+) = (?:pgTable|table)', content)
        RECURSIVE findall(_, _)
        findall(content, i) ==
            IF i > Len(content) THEN <<>>
            ELSE (CASE content[i] = "export const clients = pgTable" -> <<"clients">>
                    [] content[i] = "export const sales = pgTable" -> <<"sales">>
                    [] OTHER -> <<>>)
                 \o findall(content, i + 1)
        RECURSIVE loop(_, _)
        loop(i, tables_found) ==
            IF i > Len(schema_files) THEN tables_found
            ELSE IF read_raises(tree, schema_files[i])
                 THEN loop(i + 1, tables_found)
                 ELSE loop(i + 1,
                           tables_found \o findall(tree[schema_files[i]].content, 1))
        names == {loop(1, <<>>)[i] : i \in DOMAIN loop(1, <<>>)}
    IN  {[schema_files |-> schema_files, tables_identified |-> tables_identified] :
            tables_identified \in
                {list \in [1..Cardinality(names) -> names] :
                    {list[i] : i \in DOMAIN list} = names}}

\* lines 181-186 and 226-235: the five analyses and the report that is saved;
\* the reports the call can make
improvement_report(tree) ==
    LET \* the files whose name holds one of the words
        named(words) ==
            SelectSeq(walked(tree), LAMBDA path :
                \E word \in words : has_word(file_name(path), word))
    IN  {[timestamp |-> "2025-06-26",
          structure_analysis |-> analyze_project_structure(tree),
          authentication_analysis |->
              [auth_files |-> named({"auth", "session", "middleware"})],
          database_analysis |-> database,
          inventory_analysis |->
              [inventory_files |-> named({"inventory", "item", "stock", "sales"})],
          client_analysis |->
              [client_files |-> named({"client", "customer", "vip"})]] :
            database \in analyze_database_schema(tree)}

\* the trees VaultCodeAnalyzer is run on, with and without the report of an
\* earlier run
VaultTrees ==
    {[f \in {walk_repo[i] : i \in DOMAIN walk_repo} \cup {Root} |->
         CASE f = Root -> Directory
           [] f = "drizzle.config.ts" -> dr
           [] f = "package.json" -> pk
           [] f = VaultAnalysisReportJson -> re
           [] f = "client/src/index.css" -> cs
           [] f = ClientsTsx -> cl
           [] f = AuthMiddlewareTs -> am
           [] f = SchemaTs -> sc] :
        dr \in {Absent, Unreadable, Text(<<"defineConfig">>),
                Text(<<"export const clients = pgTable">>)},
        pk \in {Absent, Text(<<"dependencies">>)},
        re \in {Absent, Unreadable, Text(<<"structure_analysis">>)},
        cs \in {Absent, Text(<<"@tailwind">>)},
        cl \in {Absent, Text(<<"staleTime: 0">>)},
        am \in {Absent, Text(<<"try {", "} catch">>)},
        sc \in {Absent, Unreadable,
                Text(<<"export const clients = pgTable", "export const sales = pgTable">>)}}

InitVault ==
    /\ fs \in VaultTrees
    /\ now = 0
    /\ Constructed

AnalyzeDatabaseSchema ==
    \E schema_analysis \in analyze_database_schema(fs) :
        Returns("analyze_database_schema", <<>>, Returned(schema_analysis))

\* generate_improvement_report: the five analyses, then the report file
GenerateImprovementReport ==
    \E report \in improvement_report(fs) :
        LET saved == ~write_raises(fs, VaultAnalysisReportJson) IN
        /\ pc = "ready"
        /\ pc' = "done"
        /\ prev' = ret
        /\ ret' = Call("generate_improvement_report", <<>>,
                       IF saved THEN Returned(report) ELSE Raised)
        /\ fs' = IF saved
                 THEN written(fs, VaultAnalysisReportJson, "structure_analysis")
                 ELSE fs
        /\ UNCHANGED <<now, self_issues, self_fixes, runs, baseline_data>>

NextVault ==
    \/ AnalyzeDatabaseSchema
    \/ GenerateImprovementReport
    \/ Repeat

SpecVault == InitVault /\ [][NextVault]_vars

TwoVaultRuns ==
    /\ ret.op = "generate_improvement_report" /\ ret.status = "returned"
    /\ prev.op = "generate_improvement_report" /\ prev.status = "returned"

\* C14: runs share no mutable state: the structure analysis (the frontend,
\* backend, database, config and assets lists) of a second consecutive run
\* over the default root equals that of the first run
C14_SecondRunSameStructure ==
    TwoVaultRuns =>
        ret.value.structure_analysis = prev.value.structure_analysis

----------------------------------------------------------------------------
(* RepairCreationDebugger (kimi-dev-repair-debug.py): the analyses and the *)
(* seven sections main prints                                               *)

RepairsTsx == "client/src/pages/repairs.tsx"

analyze_frontend_form_submission_flow(tree) ==
    IF ~exists(tree, RepairsTsx) THEN Returned(<<>>)
    ELSE IF read_raises(tree, RepairsTsx) THEN Raised
    ELSE LET content == tree[RepairsTsx].content IN
         Returned(
           (IF contains(content, "repairFormSchema")
            THEN <<[type |-> "form_schema", severity |-> "medium",
                    issue |-> "Form schema exists but may have validation conflicts",
                    location |-> "client/src/pages/repairs.tsx:59-72"]>>
            ELSE <<>>)
           \o
           (IF contains(content, "createMutation")
            THEN <<[type |-> "mutation_config", severity |-> "high",
                    issue |-> "Mutation exists but form submission not reaching server",
                    location |-> "client/src/pages/repairs.tsx:143-164"]>>
            ELSE <<>>)
           \o
           (IF contains(content, "form.handleSubmit(handleSubmit")
            THEN <<[type |-> "form_submission", severity |-> "high",
                    issue |-> "Form submission handler connected but not executing",
                    location |-> "client/src/pages/repairs.tsx:656"]>>
            ELSE <<>>))

analyze_api_request_function(tree) ==
    LET api_files ==
            <<"client/src/lib/queryClient.ts", "client/src/lib/api.ts",
              "client/src/utils/api.ts">>
        RECURSIVE loop(_)
        loop(i) ==
            IF i > Len(api_files)
            THEN Returned([status |-> "not_found",
                           issue |-> "apiRequest function not located",
                           recommendation |->
                               "Find and analyze the API request utility function"])
            ELSE LET api_file == api_files[i] IN
                 IF ~exists(tree, api_file) THEN loop(i + 1)
                 ELSE IF read_raises(tree, api_file) THEN Raised
                 ELSE IF contains(tree[api_file].content, "apiRequest")
                      THEN Returned([status |-> "found",
                                     location |-> api_file,
                                     analysis |-> "apiRequest function exists",
                                     recommendation |->
                                         "Add detailed logging to apiRequest function"])
                      ELSE loop(i + 1)
    IN  loop(1)

analyze_server_route_registration(tree) ==
    IF ~exists(tree, RoutesTs) THEN Returned(<<>>)
    ELSE IF read_raises(tree, RoutesTs) THEN Raised
    ELSE LET content == tree[RoutesTs].content IN
         Returned(
           (IF contains(content, "app.post(\"/api/repairs\"")
            THEN <<[type |-> "route_registration", severity |-> "low",
                    issue |-> "POST route is registered correctly",
                    location |-> "server/routes.ts:3147",
                    status |-> "working"]>>
            ELSE <<[type |-> "route_registration", severity |-> "critical",
                    issue |-> "POST route not found or incorrectly registered"]>>)
           \o
           (IF contains(content, "checkAuth") /\ contains(content, "/api/repairs")
            THEN <<[type |-> "authentication", severity |-> "medium",
                    issue |-> "Authentication middleware present"]>>
            ELSE <<>>))

form_element_patterns ==
    <<"<form\\s+onSubmit={form\\.handleSubmit\\(handleSubmit",
      "<Form\\s+{\\.\\.\\.form}>",
      "type=\"submit\"">>

\* re.search(pattern, content): the fragment each pattern matches
search(pattern, content) ==
    \E i \in DOMAIN content :
        content[i] =
            CASE pattern = form_element_patterns[1] ->
                     "<form onSubmit={form.handleSubmit(handleSubmit)}>"
              [] pattern = form_element_patterns[2] -> "<Form {...form}>"
              [] pattern = form_element_patterns[3] -> "type=\"submit\""

analyze_form_element_structure(tree) ==
    IF ~exists(tree, RepairsTsx)
    THEN Returned([error |-> "Repairs component not found"])
    ELSE IF read_raises(tree, RepairsTsx) THEN Raised
    ELSE LET content == tree[RepairsTsx].content
             found_patterns ==
                 SelectSeq(form_element_patterns, LAMBDA p : search(p, content))
         IN  Returned(
               [form_element_setup |->
                    IF Len(found_patterns) = 3 THEN "complete" ELSE "incomplete",
                found_patterns |-> found_patterns,
                missing_patterns |->
                    SelectSeq(form_element_patterns, LAMBDA p : ~search(p, content)),
                analysis |->
                    IF Len(found_patterns) = 3 THEN "Form structure appears correct"
                    ELSE "Form structure has issues"])

analyze_network_request_interception(tree) ==
    LET sw_files ==
            <<"client/public/sw.js", "client/src/sw.js", "client/src/serviceWorker.ts">>
        index_files == <<"client/src/index.tsx", MainTsx, AppTsx>>
        found == SelectSeq(sw_files, LAMBDA sw_file : exists(tree, sw_file))
        workers == [i \in DOMAIN found |->
                       [type |-> "service_worker", severity |-> "medium",
                        issue |-> <<"Service worker found at", found[i]>>]]
        RECURSIVE loop(_, _)
        loop(i, issues) ==
            IF i > Len(index_files) THEN Returned(issues)
            ELSE LET index_file == index_files[i] IN
                 IF ~exists(tree, index_file) THEN loop(i + 1, issues)
                 ELSE IF read_raises(tree, index_file) THEN Raised
                 ELSE LET content == tree[index_file].content IN
                      IF \/ contains(content, "fetch")
                         \/ contains(content, "axios")
                         \/ contains(content, "interceptor")
                      THEN loop(i + 1, Append(issues,
                               [type |-> "network_interceptor", severity |-> "high",
                                issue |-> <<"Potential network interceptor in",
                                            index_file>>]))
                      ELSE loop(i + 1, issues)
    IN  loop(1, workers)

\* main, lines 249-299: the call each of the seven sections makes, and whether
\* the section can print what the call returned.  Section 4 reads the keys
\* form_element_setup and analysis of the result (lines 276-277), which raises
\* KeyError when the result has no such key; sections 6 and 7 print fixed text
main_sections(tree) ==
    LET form_analysis == analyze_form_element_structure(tree) IN
    <<[op |-> "analyze_frontend_form_submission_flow",
       result |-> analyze_frontend_form_submission_flow(tree), printed |-> TRUE],
      [op |-> "analyze_api_request_function",
       result |-> analyze_api_request_function(tree), printed |-> TRUE],
      [op |-> "analyze_server_route_registration",
       result |-> analyze_server_route_registration(tree), printed |-> TRUE],
      [op |-> "analyze_form_element_structure",
       result |-> form_analysis,
       printed |-> IF form_analysis.status = "returned"
                   THEN /\ "form_element_setup" \in DOMAIN form_analysis.value
                        /\ "analysis" \in DOMAIN form_analysis.value
                   ELSE FALSE],
      [op |-> "analyze_network_request_interception",
       result |-> analyze_network_request_interception(tree), printed |-> TRUE],
      [op |-> "generate_systematic_fix_plan",
       result |-> Returned(<<"phase_1_immediate_debugging",
                             "phase_2_form_validation_bypass",
                             "phase_3_api_layer_analysis",
                             "phase_4_server_debugging">>),
       printed |-> TRUE],
      [op |-> "create_implementation_steps",
       \* the number of steps the list holds
       result |-> Returned(10), printed |-> TRUE]>>

\* the trees the debugger is run on
RepairTrees ==
    {[f \in {RepairsTsx, "client/src/lib/queryClient.ts", "client/src/lib/api.ts",
             "client/src/utils/api.ts", RoutesTs, "client/public/sw.js",
             "client/src/sw.js", "client/src/serviceWorker.ts",
             "client/src/index.tsx", MainTsx, AppTsx} |->
         CASE f = RepairsTsx -> rp
           [] f = "client/src/lib/queryClient.ts" -> qc
           [] f = "client/src/lib/api.ts" -> la
           [] f = RoutesTs -> ro
           [] f = "client/public/sw.js" -> sw
           [] f = "client/src/serviceWorker.ts" -> sv
           [] f = "client/src/index.tsx" -> ix
           [] f = MainTsx -> mt
           [] f = AppTsx -> ap
           [] OTHER -> Absent] :
        rp \in {Absent, Unreadable,
                Text(<<"repairFormSchema", "createMutation",
                       "<form onSubmit={form.handleSubmit(handleSubmit)}>",
                       "<Form {...form}>", "type=\"submit\"">>),
                Text(<<"createMutation", "type=\"submit\"">>)},
        qc \in {Absent, Unreadable, Text(<<"apiRequest">>)},
        la \in {Absent, Text(<<"apiRequest">>)},
        ro \in {Absent, Unreadable,
                Text(<<"app.post(\"/api/repairs\"", "checkAuth">>),
                Text(<<"checkAuth">>), Text(<<"/api/repairs">>),
                Text(<<"checkAuth", "/api/repairs">>)},
        sw \in {Absent, Text(<<"self.addEventListener">>)},
        sv \in {Absent, Text(<<"register">>)},
        ix \in {Absent, Text(<<"fetch">>)},
        mt \in {Absent, Unreadable, Text(<<"createRoot">>)},
        ap \in {Absent, Text(<<"axios">>)}}

\* main is about to print its first section
InitRepair ==
    /\ fs \in RepairTrees
    /\ now = 0
    /\ self_issues = <<>>
    /\ self_fixes = <<>>
    /\ pc = "section1"
    /\ runs = 0
    /\ ret = NoCall
    /\ prev = NoCall
    /\ baseline_data = PerformanceBaselineAnalyzer(0)

\* one section of main: the analysis is made and printed, or an exception
\* ends main
MainSection ==
    LET names == <<"section1", "section2", "section3", "section4", "section5",
                   "section6", "section7", "done">>
    IN  \E i \in 1..7 :
            LET section == main_sections(fs)[i] IN
            /\ pc = names[i]
            /\ pc' = IF section.result.status = "returned" /\ section.printed
                     THEN names[i + 1]
                     ELSE "raised"
            /\ prev' = ret
            /\ ret' = Call(section.op, <<>>, section.result)
            /\ UNCHANGED <<fs, now, self_issues, self_fixes, runs, baseline_data>>

NextRepair == MainSection

SpecRepair == InitRepair /\ [][NextRepair]_vars

\* C18: main of the repair debugger reaches its last section and ends
\* normally in every state of the tree, the state without repairs.tsx
\* included: a missing or non-matching file changes the findings and never
\* aborts the run
C18_MainNeverAborts == pc # "raised"

----------------------------------------------------------------------------
(* The plan of the improvement suggestions *)

PlanReturned == ret.op = "create_implementation_plan" /\ ret.status = "returned"

\* what the five checks of VaultCodeImprover return on the scanned tree, in
\* the order they are called
Detected ==
    analyze_inventory_performance_issues(fs).value
        \o analyze_authentication_security(fs).value
        \o analyze_database_query_optimization(fs).value
        \o analyze_csv_import_robustness(fs).value
        \o analyze_client_search_performance(fs).value

\* the sections of a phase that show the finding
SectionsOf(phase, finding) ==
    {i \in DOMAIN phase :
        phase[i].issue = finding.issue /\ phase[i].file = finding.file}

\* where a section's finding was detected
DetectedAt(section) ==
    CHOOSE k \in DOMAIN Detected :
        Detected[k].issue = section.issue /\ Detected[k].file = section.file

\* C23: every issue counted in total_issues appears exactly once in the plan
\* made from the suggestions: the HIGH findings as "Fix 1..h" in phase 1, the
\* MEDIUM findings as "Optimization 1..m" in phase 2, each phase in detection
\* order, and no detected finding is left out
C23_PlanListsEveryIssueOnce ==
    PlanReturned =>
        LET phase_1 == ret.value.phase_1
            phase_2 == ret.value.phase_2
        IN  /\ ret.arg.total_issues = Len(Detected)
            /\ Len(phase_1) + Len(phase_2) = ret.arg.total_issues
            /\ \A k \in DOMAIN Detected :
                  /\ Cardinality(SectionsOf(phase_1, Detected[k]))
                       = IF Detected[k]["severity"] = "HIGH" THEN 1 ELSE 0
                  /\ Cardinality(SectionsOf(phase_2, Detected[k]))
                       = IF Detected[k]["severity"] = "MEDIUM" THEN 1 ELSE 0
                  /\ Cardinality(SectionsOf(phase_1, Detected[k]))
                       + Cardinality(SectionsOf(phase_2, Detected[k])) = 1
            /\ \A i \in DOMAIN phase_1 : phase_1[i].heading = <<"Fix", i>>
            /\ \A i \in DOMAIN phase_2 : phase_2[i].heading = <<"Optimization", i>>
            /\ \A i, j \in DOMAIN phase_1 :
                  i < j => DetectedAt(phase_1[i]) < DetectedAt(phase_1[j])
            /\ \A i, j \in DOMAIN phase_2 :
                  i < j => DetectedAt(phase_2[i]) < DetectedAt(phase_2[j])

\* a plan of two fixes and three optimizations, where a MEDIUM finding was
\* detected between the two HIGH ones
C23_Witness ==
    /\ PlanReturned
    /\ Len(ret.value.phase_1) = 2
    /\ Len(ret.value.phase_2) >= 3
    /\ Detected[1]["severity"] = "HIGH"
    /\ Detected[2]["severity"] = "MEDIUM"
    /\ Detected[3]["severity"] = "HIGH"

----------------------------------------------------------------------------
(* PerformanceBaselineAnalyzer (kimi-dev-performance-baseline.py): main, the *)
(* baseline data it fills and the report made from them                      *)

PerformanceBaselineJson == "performance-baseline.json"
PerformanceBaselineReportMd == "performance-baseline-report.md"

analyze_current_performance_metrics ==
    [current_metrics |->
         [FCP |-> "8500ms (threshold: 1800ms)",
          LCP |-> "8748ms (threshold: 2500ms)",
          TTFB |-> "346ms (good)",
          status |-> "CRITICAL - 4.7x slower than acceptable"],
     observed_issues |->
         <<"Poor First Contentful Paint - 8500ms vs 1800ms target",
           "Poor Largest Contentful Paint - 8748ms vs 2500ms target",
           "Client list refreshes every 3 seconds causing constant re-renders",
           "Multiple components loading synchronously at startup">>,
     user_impact |-> "Users wait 8+ seconds to see content"]

\* a check that rates its findings with "severity", as the other scripts do
identify_bundle_size_issues_with_severity(tree) ==
    LET heavy_deps ==
            <<<<"@radix-ui/*", "30+ individual Radix UI packages loaded">>,
              <<"recharts", "Large charting library for analytics">>,
              <<"xlsx", "Excel processing library loaded on startup">>,
              <<"framer-motion", "Animation library loaded globally">>,
              <<"embla-carousel-react", "Carousel library loaded but rarely used">>>>
        without_star(dep) == IF dep = "@radix-ui/*" THEN "@radix-ui/" ELSE dep
    IN  IF ~exists(tree, "package.json") THEN Returned(<<>>)
        ELSE IF read_raises(tree, "package.json") THEN Raised
        ELSE LET content == tree["package.json"].content
                 found == SelectSeq(heavy_deps,
                              LAMBDA d : contains(content, without_star(d[1])))
             IN  Returned([i \in DOMAIN found |->
                              [type |-> "bundle_size",
                               dependency |-> found[i][1],
                               issue |-> found[i][2],
                               severity |-> "HIGH",
                               recommendation |->
                                   "Lazy load or code split this dependency"]])

identify_bundle_size_issues(tree) ==
    LET heavy_deps ==
            <<<<"@radix-ui/*", "30+ individual Radix UI packages loaded">>,
              <<"recharts", "Large charting library for analytics">>,
              <<"xlsx", "Excel processing library loaded on startup">>,
              <<"framer-motion", "Animation library loaded globally">>,
              <<"embla-carousel-react", "Carousel library loaded but rarely used">>>>
        \* dep.replace("*", "")
        without_star(dep) == IF dep = "@radix-ui/*" THEN "@radix-ui/" ELSE dep
    IN  IF ~exists(tree, "package.json") THEN Returned(<<>>)
        ELSE IF read_raises(tree, "package.json") THEN Raised
        ELSE LET content == tree["package.json"].content
                 found == SelectSeq(heavy_deps,
                              LAMBDA d : contains(content, without_star(d[1])))
             IN  Returned([i \in DOMAIN found |->
                              [type |-> "bundle_size",
                               dependency |-> found[i][1],
                               issue |-> found[i][2],
                               impact |-> "HIGH",
                               recommendation |->
                                   "Lazy load or code split this dependency"]])

analyze_component_loading_patterns(tree) ==
    LET \* what direct_import_pattern finds in one line: the component and the
        \* module under ./pages/ it is imported from
        direct_import(fragment) ==
            CASE fragment = "import Dashboard from \"./pages/dashboard\"" ->
                     <<[component |-> "Dashboard", path |-> "pages/dashboard",
                        load_type |-> "synchronous"]>>
              [] fragment = "import Login from \"./pages/login\"" ->
                     <<[component |-> "Login", path |-> "pages/login",
                        load_type |-> "synchronous"]>>
              [] fragment = "import Inventory from \"./pages/inventory\"" ->
                     <<[component |-> "Inventory", path |-> "pages/inventory",
                        load_type |-> "synchronous"]>>
              [] fragment = "import Reports from \"./pages/reports\"" ->
                     <<[component |-> "Reports", path |-> "pages/reports",
                        load_type |-> "synchronous"]>>
              [] fragment = "import ImportWizard from \"./pages/importWizard\"" ->
                     <<[component |-> "ImportWizard", path |-> "pages/importWizard",
                        load_type |-> "synchronous"]>>
              [] fragment = "import DashboardSettings from \"./pages/dashboardSettings\"" ->
                     <<[component |-> "DashboardSettings",
                        path |-> "pages/dashboardSettings",
                        load_type |-> "synchronous"]>>
              [] OTHER -> <<>>
        \* what lazy_import_pattern finds in one line
        lazy_import(fragment) ==
            IF fragment = "const Reports = lazy(" THEN <<"Reports">> ELSE <<>>
        \* word in comp["component"], for the words of the two lists
        has(component, word) ==
            word \in
                CASE component = "Dashboard" -> {"Dashboard"}
                  [] component = "Login" -> {"Login"}
                  [] component = "Reports" -> {"Reports"}
                  [] component = "ImportWizard" -> {"Import"}
                  [] component = "DashboardSettings" -> {"Dashboard", "Settings"}
                  [] OTHER -> {}
        critical_components == {"Login", "Dashboard", "Header", "Layout"}
        safe_to_optimize == {"Reports", "Analytics", "Settings", "Export", "Import"}
        RECURSIVE finditer(_, _, _)
        finditer(find(_), content, i) ==
            IF i > Len(content) THEN <<>>
            ELSE find(content[i]) \o finditer(find, content, i + 1)
    IN  IF ~exists(tree, AppTsx)
        THEN Returned([direct_imports |-> <<>>, lazy_imports |-> <<>>,
                       critical_path_components |-> <<>>,
                       optimization_candidates |-> <<>>])
        ELSE IF read_raises(tree, AppTsx) THEN Raised
        ELSE LET content == tree[AppTsx].content
                 direct_imports == finditer(direct_import, content, 1)
             IN  Returned(
                   [direct_imports |-> direct_imports,
                    lazy_imports |-> finditer(lazy_import, content, 1),
                    critical_path_components |->
                        SelectSeq(direct_imports, LAMBDA comp :
                            \E crit \in critical_components :
                                has(comp.component, crit)),
                    optimization_candidates |->
                        SelectSeq(direct_imports, LAMBDA comp :
                            \E safe \in safe_to_optimize :
                                has(comp.component, safe))])

map_component_dependencies ==
    [authentication_flow |->
         <<"App.tsx -> auth context", "All pages -> requireAuth middleware",
           "Header -> user data from auth">>,
     data_flow |->
         <<"Dashboard -> inventory + clients + sales APIs",
           "Clients -> client API + purchase history",
           "Inventory -> items + images + SKU data">>,
     critical_paths |->
         <<"Login -> Dashboard (must be fast)",
           "Dashboard -> Inventory/Clients (core features)",
           "Data mutations -> Cache invalidation">>,
     safe_to_optimize |->
         <<"Reports generation", "Analytics calculations", "CSV import/export",
           "Settings pages">>]

generate_risk_assessment ==
    [high_risk_changes |->
         <<[change |-> "Lazy loading authentication components",
            risk |-> "Could break login flow",
            mitigation |-> "Never lazy load auth components"],
           [change |-> "Modifying core data fetching",
            risk |-> "Could break real-time updates",
            mitigation |-> "Test extensively with rollback plan"]>>,
     medium_risk_changes |->
         <<[change |-> "Code splitting large components",
            risk |-> "Initial load flash",
            mitigation |-> "Add loading skeletons"],
           [change |-> "Implementing route-based splitting",
            risk |-> "Navigation delays",
            mitigation |-> "Preload on hover/focus"]>>,
     low_risk_changes |->
         <<[change |-> "Compression middleware",
            risk |-> "Minimal - server-side only",
            mitigation |-> "Monitor CPU usage"],
           [change |-> "Image optimization",
            risk |-> "Quality degradation",
            mitigation |-> "Test with sample images"],
           [change |-> "Bundle analysis",
            risk |-> "None - analysis only",
            mitigation |-> "N/A"]>>]

\* the phases of the roadmap
generate_optimization_roadmap ==
    <<"1A - Non-Breaking Analysis", "1B - Server Optimizations",
      "1C - Safe Frontend Optimizations", "1D - Measurement & Validation">>

\* lines 284-323: a subscript with a key the dict does not have raises
\* KeyError; the loops over dependencies and risk_assessment take whatever
\* entries there are
create_performance_baseline_report(data) ==
    IF "current_metrics" \notin DOMAIN data.metrics THEN Raised
    ELSE IF ~({"FCP", "LCP", "TTFB", "status"}
                 \subseteq DOMAIN data.metrics.current_metrics) THEN Raised
    ELSE IF \E i \in DOMAIN data.bottlenecks :
                ~({"issue", "impact"} \subseteq DOMAIN data.bottlenecks[i]) THEN Raised
    ELSE IF \E level \in DOMAIN data.risk_assessment :
                \E i \in DOMAIN data.risk_assessment[level] :
                    ~({"change", "risk", "mitigation"}
                         \subseteq DOMAIN data.risk_assessment[level][i]) THEN Raised
    ELSE Returned(
           [generated |-> data.timestamp,
            metrics |-> data.metrics.current_metrics,
            bottlenecks |->
                [i \in DOMAIN data.bottlenecks |->
                    <<data.bottlenecks[i].issue, data.bottlenecks[i].impact>>],
            dependencies |-> data.dependencies,
            risk_assessment |-> data.risk_assessment])

\* main, lines 325-379: the calls in the order main makes them, each with the
\* baseline data and the tree it leaves behind when it returns
main_steps(tree, data) ==
    LET bundle_issues == identify_bundle_size_issues(tree)
        data_issues == analyze_data_fetching_patterns(tree)
        saved(path) == IF write_raises(tree, path) THEN Raised ELSE Returned(<<>>)
    IN  <<[op |-> "analyze_current_performance_metrics",
           result |-> Returned(analyze_current_performance_metrics),
           data |-> [data EXCEPT !.metrics = analyze_current_performance_metrics],
           tree |-> tree],
          [op |-> "identify_bundle_size_issues",
           result |-> bundle_issues,
           data |-> [data EXCEPT !.bottlenecks = extend(@, bundle_issues.value)],
           tree |-> tree],
          [op |-> "analyze_component_loading_patterns",
           result |-> analyze_component_loading_patterns(tree),
           data |-> data, tree |-> tree],
          [op |-> "analyze_data_fetching_patterns",
           result |-> data_issues,
           data |-> [data EXCEPT !.bottlenecks = extend(@, data_issues.value)],
           tree |-> tree],
          [op |-> "map_component_dependencies",
           result |-> Returned(map_component_dependencies),
           data |-> [data EXCEPT !.dependencies = map_component_dependencies],
           tree |-> tree],
          [op |-> "generate_risk_assessment",
           result |-> Returned(generate_risk_assessment),
           data |-> [data EXCEPT !.risk_assessment = generate_risk_assessment],
           tree |-> tree],
          [op |-> "generate_optimization_roadmap",
           result |-> Returned(generate_optimization_roadmap),
           data |-> data, tree |-> tree],
          [op |-> "json.dump",
           result |-> saved(PerformanceBaselineJson),
           data |-> data,
           tree |-> written(tree, PerformanceBaselineJson, "bottlenecks")],
          [op |-> "create_performance_baseline_report",
           result |-> create_performance_baseline_report(data),
           data |-> data, tree |-> tree],
          [op |-> "f.write",
           result |-> saved(PerformanceBaselineReportMd),
           data |-> data,
           tree |-> written(tree, PerformanceBaselineReportMd,
                            "# PERFORMANCE BASELINE ANALYSIS REPORT")]>>

\* the trees the baseline analysis is run on
BaselineTrees ==
    {[f \in {Root, "package.json", AppTsx, ClientsTsx, PerformanceBaselineJson,
             PerformanceBaselineReportMd} |->
         CASE f = Root -> Directory
           [] f = "package.json" -> pk
           [] f = AppTsx -> ap
           [] f = ClientsTsx -> cl
           [] f = PerformanceBaselineJson -> bj
           [] f = PerformanceBaselineReportMd -> br] :
        pk \in {Absent, Unreadable, Text(<<"react">>),
                Text(<<"@radix-ui/react-dialog", "recharts">>),
                Text(<<"xlsx", "framer-motion", "embla-carousel-react">>)},
        ap \in {Absent, Unreadable,
                Text(<<"import Dashboard from \"./pages/dashboard\"",
                       "import Login from \"./pages/login\"",
                       "import Inventory from \"./pages/inventory\"",
                       "const Reports = lazy(">>),
                Text(<<"import { Switch } from \"wouter\"",
                       "import Reports from \"./pages/reports\"",
                       "import ImportWizard from \"./pages/importWizard\"">>),
                Text(<<"import DashboardSettings from \"./pages/dashboardSettings\"",
                       "import Dashboard from \"./pages/dashboard\"">>)},
        cl \in {Absent, Unreadable, Text(<<"staleTime: 30">>),
                Text(<<"refetchInterval: 3 * 1000", "staleTime: 0">>)},
        bj \in {Absent, Unreadable, Text(<<"bottlenecks">>)},
        br \in {Absent, Unreadable}}

\* main has made the analyzer and is about to take its first step
InitBaseline ==
    /\ fs \in BaselineTrees
    /\ now \in 0..MaxClock
    /\ self_issues = <<>>
    /\ self_fixes = <<>>
    /\ pc = "step1"
    /\ runs = 0
    /\ ret = NoCall
    /\ prev = NoCall
    /\ baseline_data = PerformanceBaselineAnalyzer(now)

\* one step of main: the call returns and main goes on, or an exception ends
\* main
MainStep ==
    LET names == <<"step1", "step2", "step3", "step4", "step5", "step6", "step7",
                   "save", "report", "write", "done">>
    IN  \E i \in 1..10 :
            LET step == main_steps(fs, baseline_data)[i]
                returned == step.result.status = "returned"
            IN  /\ pc = names[i]
                /\ pc' = IF returned THEN names[i + 1] ELSE "raised"
                /\ prev' = ret
                /\ ret' = Call(step.op, <<>>, step.result)
                /\ baseline_data' = IF returned THEN step.data ELSE baseline_data
                /\ fs' = IF returned THEN step.tree ELSE fs
                /\ UNCHANGED <<now, self_issues, self_fixes, runs>>

NextBaseline == MainStep

SpecBaseline == InitBaseline /\ [][NextBaseline]_vars

ReportCalled == ret.op = "create_performance_baseline_report"

\* C24: when main calls create_performance_baseline_report the metrics, the
\* dependencies and the risk assessment are filled in, every bottleneck has
\* an "issue" and an "impact", and the report is made without a missing key,
\* whatever the state of the scanned tree
C24_ReportFindsItsKeys ==
    /\ (pc = "report" \/ ReportCalled) =>
           /\ baseline_data.metrics = analyze_current_performance_metrics
           /\ baseline_data.dependencies = map_component_dependencies
           /\ baseline_data.risk_assessment = generate_risk_assessment
           /\ \A i \in DOMAIN baseline_data.bottlenecks :
                  {"issue", "impact"} \subseteq DOMAIN baseline_data.bottlenecks[i]
    /\ ReportCalled =>
           /\ ret.status = "returned"
           /\ Len(ret.value.bottlenecks) = Len(baseline_data.bottlenecks)

\* a report over bottlenecks of both kinds, bundle findings and data fetching
\* findings
C24_Witness ==
    /\ ReportCalled
    /\ ret.status = "returned"
    /\ \E i, j \in DOMAIN baseline_data.bottlenecks :
          /\ "dependency" \in DOMAIN baseline_data.bottlenecks[i]
          /\ "component" \in DOMAIN baseline_data.bottlenecks[j]
    /\ Len(ret.value.bottlenecks) = 5

\* C25: no directly imported component is both a critical path component and
\* an optimization candidate, whatever client/src/App.tsx holds
C25_CriticalAndSafeDisjoint ==
    (ret.op = "analyze_component_loading_patterns" /\ ret.status = "returned") =>
        \A i \in DOMAIN ret.value.critical_path_components :
            \A j \in DOMAIN ret.value.optimization_candidates :
                ret.value.critical_path_components[i].component
                    # ret.value.optimization_candidates[j].component

----------------------------------------------------------------------------
(* The image findings and the image proposals *)

\* the entries of a list that name the file
EntriesOf(list, file) == {i \in DOMAIN list : list[i].file = file}

\* the same count for each of the three image components, and at most one
SameCountPerFile(findings, improvements) ==
    \A file \in {"client/src/components/inventory-table.tsx",
                 "client/src/components/inventory-card-view.tsx",
                 "client/src/components/item-details-modal.tsx"} :
        /\ Cardinality(EntriesOf(findings, file))
             = Cardinality(EntriesOf(improvements, file))
        /\ Cardinality(EntriesOf(improvements, file)) \in {0, 1}

\* C26: the analyzer and the implementation plan agree on image loading: for
\* each of the three image components, whatever it holds, the number of
\* findings analyze_image_lazy_loading_opportunities emits for the file
\* equals the number of improvements implement_image_lazy_loading proposes
\* for it, and that number is 0 or 1
C26_FindingsMatchProposals ==
    /\ ret.op = "implement_image_lazy_loading" =>
           /\ ret.status = analyze_image_lazy_loading_opportunities(fs).status
           /\ SameCountPerFile(analyze_image_lazy_loading_opportunities(fs).value,
                               ret.value)
    /\ ret.op = "analyze_image_lazy_loading_opportunities" =>
           /\ ret.status = implement_image_lazy_loading(fs).status
           /\ SameCountPerFile(ret.value, implement_image_lazy_loading(fs).value)

\* proposals for a component with eager images and for one with images
\* without a strategy, and none for a component whose images name another
\* strategy
C26_Witness ==
    /\ ret.op = "implement_image_lazy_loading"
    /\ ret.status = "returned"
    /\ Len(ret.value) = 2
    /\ ret.value[1].change # ret.value[2].change
    /\ fs["client/src/components/inventory-card-view.tsx"].status = "file"
    /\ EntriesOf(ret.value, "client/src/components/inventory-card-view.tsx") = {}

----------------------------------------------------------------------------
(* Schema files that cannot be read *)

SchemaAnalysed == ret.op = "analyze_database_schema" /\ ret.status = "returned"

\* the files of the tree whose name holds "schema" or "drizzle"
SchemaNamed == {f \in {"drizzle.config.ts", "shared/schema.ts"} : fs[f].status # "absent"}

\* the tables a file defines
TablesIn(file) ==
    {name \in {"clients", "sales"} :
        \E i \in DOMAIN fs[file].content :
            \/ name = "clients" /\ fs[file].content[i] = "export const clients = pgTable"
            \/ name = "sales" /\ fs[file].content[i] = "export const sales = pgTable"}

\* C27: a schema file whose read raises does not stop analyze_database_schema:
\* the call returns, the file is listed in schema_files, it adds no table
\* name, the tables of every other schema file, the later ones included, are
\* found, and tables_identified holds each name once
C27_UnreadableSchemaIsPassedOver ==
    ret.op = "analyze_database_schema" =>
        LET schema_files == ret.value.schema_files
            tables == ret.value.tables_identified
        IN  /\ ret.status = "returned"
            /\ {schema_files[i] : i \in DOMAIN schema_files} = SchemaNamed
            /\ {tables[i] : i \in DOMAIN tables}
                 = UNION {TablesIn(f) : f \in {g \in SchemaNamed : fs[g].status = "file"}}
            /\ \A i, j \in DOMAIN tables : tables[i] = tables[j] => i = j

\* the first schema file cannot be read and the one after it defines two
\* tables
C27_Witness ==
    /\ SchemaAnalysed
    /\ fs["drizzle.config.ts"].status = "unreadable"
    /\ ret.value.schema_files = <<"drizzle.config.ts", "shared/schema.ts">>
    /\ Len(ret.value.tables_identified) = 2

----------------------------------------------------------------------------
(* The findings about the repairs route *)

\* the findings of a type in the result of the last call
OfType(type) == {i \in DOMAIN ret.value : ret.value[i]["type"] = type}

\* C28: analyze_server_route_registration emits exactly one route_registration
\* finding when server/routes.ts exists, of severity low when the file holds
\* the POST /api/repairs registration and critical otherwise, and no finding
\* when the file does not exist; an authentication finding comes only with a
\* route_registration finding
C28_OneRouteFindingPerExistingFile ==
    ret.op = "analyze_server_route_registration" =>
        /\ fs["server/routes.ts"].status = "absent" => Len(ret.value) = 0
        /\ fs["server/routes.ts"].status # "absent" =>
               /\ Cardinality(OfType("route_registration")) = 1
               /\ \A i \in OfType("route_registration") :
                      ret.value[i].severity =
                          IF \E k \in DOMAIN fs["server/routes.ts"].content :
                                 fs["server/routes.ts"].content[k]
                                     = "app.post(\"/api/repairs\""
                          THEN "low"
                          ELSE "critical"
        /\ OfType("authentication") # {} => OfType("route_registration") # {}

============================================================================
